---- MODULE Spec2Model ----
(***************************************************************************)
(* Model of the Mini Compiler (src/compiler): lexer, parser, semantic      *)
(* analyzer, TAC generator, optimizer, interpreter and the Compiler driver.*)
(*                                                                         *)
(* Text is modelled as a sequence of one-character strings, so that        *)
(* str.startswith, str.lower, '.' in s, int(s), float(s) and f"t{n}" are   *)
(* computed on characters as the Python code computes them.                *)
(* Numbers are exact rationals [num, den, isFloat]; isFloat distinguishes  *)
(* Python float from int (it decides whether str() prints a '.').          *)
(***************************************************************************)
EXTENDS Integers, Sequences, FiniteSets, TLC

VARIABLES
    pc,            \* position of the driver / of the operation under study
    source_code,   \* Compiler.source_code / Lexer.source_code
    lexer,         \* Lexer fields: position, line, column, current_char
    tokens,        \* the list built by Lexer.tokenize
    exc,           \* the exception being raised, or NoError
    parser_current,    \* Parser.current after parse()
    ast,               \* the Program returned by Parser.parse
    symbol_table,      \* SemanticAnalyzer.symbol_table.symbols
    generator,         \* IntermediateCodeGenerator fields
    lists,             \* the list objects holding TAC instructions
    intermediate_code, \* the local variable of compile: a list reference
    errors,            \* ErrorHandler.errors
    returned,          \* what compile() returned
    interp,            \* Interpreter fields
    output,            \* the values printed by the interpreter
    steps,             \* instructions executed by the interpreter
    applied,           \* the optimizer passes applied so far
    visiting,          \* the statements the loop of generate has visited, when
                       \* the loop is followed one round at a time
    other              \* the variables of a second compilation in the same
                       \* process, while the first one runs

vars == <<pc, source_code, lexer, tokens, exc, parser_current, ast, symbol_table,
          generator, lists, intermediate_code, errors, returned, interp, output, steps,
          applied, visiting, other>>

----------------------------------------------------------------------------
(* Bounds *)

MaxSrcLen == 4      \* longest source text enumerated for the lexer
MaxFairLen == 3     \* longest source text enumerated for the termination check
MaxNest == 2        \* deepest nesting of if / while in the compiled programs
MaxSteps == 40      \* instructions the interpreter is followed for

----------------------------------------------------------------------------
(* Characters *)

None == "None"

\* a character for which str.isdigit() is True but int() raises ValueError
\* (U+00B2 SUPERSCRIPT TWO), written as an atom
SupTwo == "sup2"

AsciiDigits == {"0", "1", "2", "3", "4", "5", "6", "7", "8", "9"}

LowerLetters == {"a", "b", "c", "d", "e", "f", "g", "h", "i", "j", "k", "l", "m",
                 "n", "o", "p", "q", "r", "s", "t", "u", "v", "w", "x", "y", "z"}

UpperLetters == {"A", "B", "C", "D", "E", "F", "G", "H", "I", "J", "K", "L", "M",
                 "N", "O", "P", "Q", "R", "S", "T", "U", "V", "W", "X", "Y", "Z"}

isspace(c) == c \in {" ", "\n", "\t", "\r"}

isdigit(c) == c \in AsciiDigits \cup {SupTwo}

isalpha(c) == c \in LowerLetters \cup UpperLetters

isalnum(c) == isalpha(c) \/ isdigit(c)

LowerOf == [c \in UpperLetters |->
    CASE c = "A" -> "a" [] c = "B" -> "b" [] c = "C" -> "c" [] c = "D" -> "d"
      [] c = "E" -> "e" [] c = "F" -> "f" [] c = "G" -> "g" [] c = "H" -> "h"
      [] c = "I" -> "i" [] c = "J" -> "j" [] c = "K" -> "k" [] c = "L" -> "l"
      [] c = "M" -> "m" [] c = "N" -> "n" [] c = "O" -> "o" [] c = "P" -> "p"
      [] c = "Q" -> "q" [] c = "R" -> "r" [] c = "S" -> "s" [] c = "T" -> "t"
      [] c = "U" -> "u" [] c = "V" -> "v" [] c = "W" -> "w" [] c = "X" -> "x"
      [] c = "Y" -> "y" [] c = "Z" -> "z"]

lower(s) == [i \in 1..Len(s) |-> IF s[i] \in UpperLetters THEN LowerOf[s[i]] ELSE s[i]]

----------------------------------------------------------------------------
(* Lexer (src/compiler/lexer.py) *)

kw_brainrot      == <<"b","r","a","i","n","r","o","t">>
kw_tongtongsahur == <<"t","o","n","g","t","o","n","g","s","a","h","u","r">>
kw_bombardino    == <<"b","o","m","b","a","r","d","i","n","o">>
kw_crocodilo     == <<"c","r","o","c","o","d","i","l","o">>
kw_chimpanzini   == <<"c","h","i","m","p","a","n","z","i","n","i">>
kw_bananini      == <<"b","a","n","a","n","i","n","i">>
kw_patapim       == <<"p","a","t","a","p","i","m">>
kw_drip          == <<"d","r","i","p">>

keywords(word) ==
    CASE word = kw_brainrot      -> "PROGRAM"
      [] word = kw_tongtongsahur -> "VAR"
      [] word = kw_bombardino    -> "INTEGER"
      [] word = kw_crocodilo     -> "FLOAT"
      [] word = kw_chimpanzini   -> "IF"
      [] word = kw_bananini      -> "ELSE"
      [] word = kw_patapim       -> "WHILE"
      [] word = kw_drip          -> "PRINT"
      [] OTHER                   -> "IDENTIFIER"

OperatorTexts ==
    { <<"+">>, <<"-">>, <<"*">>, <<"/">>, <<"=">>, <<"=","=">>, <<"!","=">>,
      <<"<">>, <<">">>, <<"(">>, <<")">>, <<"{">>, <<"}">>, <<";">>,
      <<"<","=">>, <<">","=">> }

operators(op) ==
    CASE op = <<"+">>     -> "PLUS"
      [] op = <<"-">>     -> "MINUS"
      [] op = <<"*">>     -> "MULTIPLY"
      [] op = <<"/">>     -> "DIVIDE"
      [] op = <<"=">>     -> "ASSIGN"
      [] op = <<"=","=">> -> "EQUALS"
      [] op = <<"!","=">> -> "NOT_EQUALS"
      [] op = <<"<">>     -> "LESS_THAN"
      [] op = <<">">>     -> "GREATER_THAN"
      [] op = <<"(">>     -> "LPAREN"
      [] op = <<")">>     -> "RPAREN"
      [] op = <<"{">>     -> "LBRACE"
      [] op = <<"}">>     -> "RBRACE"
      [] op = <<";">>     -> "SEMICOLON"
      [] op = <<"<","=">> -> "LESS_THAN_OR_EQUAL"
      [] op = <<">","=">> -> "GREATER_THAN_OR_EQUAL"

\* "no exception" and "no token", as records so that they compare with records
NoError == [type |-> "None"]

NoToken == [type |-> "None"]

Token(type, value, line, column) ==
    [type |-> type, value |-> value, line |-> line, column |-> column]

\* Lexer.__init__ ; position is 0-based as in the source
LexerInit(src) ==
    [position |-> 0, line |-> 1, column |-> 1,
     current_char |-> IF Len(src) > 0 THEN src[1] ELSE None]

\* advance without the restart of the column after a newline
advance_keeps_column(src, lx) ==
    LET p == lx.position + 1
        c == lx.column + 1
    IN  IF p >= Len(src)
        THEN [position |-> p, line |-> lx.line, column |-> c, current_char |-> None]
        ELSE [position |-> p,
              line |-> IF lx.current_char = "\n" THEN lx.line + 1 ELSE lx.line,
              column |-> c,
              current_char |-> src[p + 1]]

advance(src, lx) ==
    LET p == lx.position + 1
        c == lx.column + 1
    IN  IF p >= Len(src)
        THEN [position |-> p, line |-> lx.line, column |-> c, current_char |-> None]
        ELSE [position |-> p,
              line |-> IF lx.current_char = "\n" THEN lx.line + 1 ELSE lx.line,
              column |-> IF lx.current_char = "\n" THEN 1 ELSE c,
              current_char |-> src[p + 1]]

peek(src, lx) ==
    IF lx.position + 1 >= Len(src) THEN None ELSE src[lx.position + 2]

\* skip_whitespace testing for ' ' instead of str.isspace()
RECURSIVE skip_whitespace_blank_only(_, _)
skip_whitespace_blank_only(src, lx) ==
    IF lx.current_char # None /\ lx.current_char = " "
    THEN skip_whitespace_blank_only(src, advance(src, lx))
    ELSE lx

RECURSIVE skip_whitespace(_, _)
skip_whitespace(src, lx) ==
    IF lx.current_char # None /\ isspace(lx.current_char)
    THEN skip_whitespace(src, advance(src, lx))
    ELSE lx

RECURSIVE SkipToEol(_, _)
SkipToEol(src, lx) ==
    IF lx.current_char # None /\ lx.current_char # "\n"
    THEN SkipToEol(src, advance(src, lx))
    ELSE lx

\* skip_comment that skips the '#' and leaves the rest of the line
skip_comment_marker_only(src, lx) == advance(src, lx)

skip_comment(src, lx) ==
    LET l1 == SkipToEol(src, advance(src, lx))
    IN  IF l1.current_char = "\n" THEN advance(src, l1) ELSE l1

RECURSIVE IdentifierLoop(_, _, _)
IdentifierLoop(src, lx, result) ==
    IF lx.current_char # None /\ (isalnum(lx.current_char) \/ lx.current_char = "_")
    THEN IdentifierLoop(src, advance(src, lx), Append(result, lx.current_char))
    ELSE [lx |-> lx, result |-> result]

read_identifier(src, lx) ==
    LET r == IdentifierLoop(src, lx, <<>>)
    IN  [lx  |-> r.lx,
         err |-> NoError,
         tok |-> Token(keywords(lower(r.result)), r.result, r.lx.line, lx.column)]

LexicalError(message, line, column) ==
    [type |-> "LexicalError", message |-> message, line |-> line, column |-> column]

RECURSIVE NumberLoop(_, _, _, _)
NumberLoop(src, lx, result, is_float) ==
    IF lx.current_char # None /\ (isdigit(lx.current_char) \/ lx.current_char = ".")
    THEN IF lx.current_char = "." /\ is_float
         THEN [lx |-> lx, result |-> result, is_float |-> is_float,
               err |-> LexicalError([text |-> "Invalid number format: multiple decimal points", args |-> <<>>],
                                    lx.line, lx.column)]
         ELSE NumberLoop(src, advance(src, lx), Append(result, lx.current_char),
                         is_float \/ lx.current_char = ".")
    ELSE [lx |-> lx, result |-> result, is_float |-> is_float, err |-> NoError]

read_number(src, lx) ==
    LET r == NumberLoop(src, lx, <<>>, FALSE)
    IN  [lx  |-> r.lx,
         err |-> r.err,
         tok |-> Token(IF r.is_float THEN "FLOAT_LITERAL" ELSE "INTEGER_LITERAL",
                       r.result, r.lx.line, lx.column)]

\* the two characters examined by the multi-character operator test
TwoChar(src, lx) ==
    IF peek(src, lx) = None THEN <<lx.current_char>> ELSE <<lx.current_char, peek(src, lx)>>

\* which branch of the loop of get_next_token is taken in lexer state lx
LexBranch(src, lx) ==
    CASE lx.current_char = None                               -> "eof"
      [] isspace(lx.current_char)                             -> "space"
      [] lx.current_char = "#"                                -> "comment"
      [] isalpha(lx.current_char) \/ lx.current_char = "_"    -> "identifier"
      [] isdigit(lx.current_char)                             -> "number"
      [] TwoChar(src, lx) \in OperatorTexts                   -> "two_char"
      [] <<lx.current_char>> \in OperatorTexts                -> "one_char"
      [] OTHER                                                -> "invalid"

RECURSIVE get_next_token(_, _)
get_next_token(src, lx) ==
    LET b == LexBranch(src, lx)
    IN  CASE b = "space"      -> get_next_token(src, skip_whitespace(src, lx))
          [] b = "comment"    -> get_next_token(src, skip_comment(src, lx))
          [] b = "identifier" -> read_identifier(src, lx)
          [] b = "number"     -> read_number(src, lx)
          [] b = "two_char"   ->
                [lx  |-> advance(src, advance(src, lx)),
                 err |-> NoError,
                 tok |-> Token(operators(TwoChar(src, lx)), TwoChar(src, lx),
                               lx.line, lx.column)]
          [] b = "one_char"   ->
                [lx  |-> advance(src, lx),
                 err |-> NoError,
                 tok |-> Token(operators(<<lx.current_char>>), <<lx.current_char>>,
                               lx.line, lx.column)]
          [] b = "invalid"    ->
                [lx  |-> lx,
                 err |-> LexicalError([text |-> "Invalid character", args |-> <<lx.current_char>>],
                                      lx.line, lx.column),
                 tok |-> NoToken]
          [] b = "eof"        ->
                [lx  |-> lx,
                 err |-> NoError,
                 tok |-> Token("EOF", <<>>, lx.line, lx.column)]

----------------------------------------------------------------------------
(* Numbers: Python int and float values as exact rationals.  A whole       *)
(* number is kept in two limbs, high * 10^8 + num, so that the integers     *)
(* around 2^53, where a float no longer holds every integer, are in reach.  *)

RECURSIVE Gcd(_, _)
Gcd(a, b) == IF b = 0 THEN a ELSE Gcd(b, a % b)

Abs(n) == IF n < 0 THEN -n ELSE n

RECURSIVE Pow10(_)
Pow10(n) == IF n = 0 THEN 1 ELSE 10 * Pow10(n - 1)

Limb == 100000000

\* n / Limb truncated toward zero
Quot(n) == IF n >= 0 THEN n \div Limb ELSE -((-n) \div Limb)

\* h * Limb + n for |n| < Limb, with both limbs of one sign
Limbs(h, n, is_float) ==
    IF h > 0 /\ n < 0
    THEN [num |-> n + Limb, den |-> 1, is_float |-> is_float, high |-> h - 1]
    ELSE IF h < 0 /\ n > 0
         THEN [num |-> n - Limb, den |-> 1, is_float |-> is_float, high |-> h + 1]
         ELSE [num |-> n, den |-> 1, is_float |-> is_float, high |-> h]

\* the whole number high * Limb + num with both limbs of one sign, |num| < Limb
Whole(high, num, is_float) == Limbs(high + Quot(num), num - Quot(num) * Limb, is_float)

\* the numerator as one integer
Numerator(a) == a.high * Limb + a.num

\* 2^53: up to it a float holds every integer
TwoTo53 == [high |-> 90071992, num |-> 54740992]

\* the distance between neighbouring floats at the magnitude high * Limb + num:
\* 1 below 2^53, doubling with every doubling of the magnitude
RECURSIVE Ulp(_, _, _, _, _)
Ulp(high, num, bound_high, bound_num, s) ==
    IF high < bound_high \/ (high = bound_high /\ num < bound_num)
    THEN s
    ELSE Ulp(high, num, 2 * bound_high + (2 * bound_num) \div Limb, (2 * bound_num) % Limb,
             2 * s)

\* n >= 0 as the nearest multiple of s, a tie going to the even multiple
Nearest(n, s) ==
    IF 2 * (n % s) > s \/ (2 * (n % s) = s /\ (n - (n % s)) % (2 * s) # 0)
    THEN (n - (n % s)) + s
    ELSE n - (n % s)

\* a whole number as the nearest float, ties to the even significand.  Limb is
\* a multiple of 2^8, so the remainders modulo the distance between floats
\* and modulo twice that distance are those of the low limb.
RoundDouble(a) ==
    Whole(a.high,
          (IF a.num < 0 THEN -1 ELSE 1)
              * Nearest(Abs(a.num), Ulp(Abs(a.high), Abs(a.num), TwoTo53.high, TwoTo53.num, 1)),
          TRUE)

\* the rational num/den in lowest terms, den > 0
Num(num, den, is_float) ==
    LET g == Gcd(Abs(num), Abs(den))
        s == IF den < 0 THEN -1 ELSE 1
    IN  IF (s * den) \div g = 1
        THEN Whole(0, (s * num) \div g, is_float)
        ELSE [num |-> (s * num) \div g, den |-> (s * den) \div g, is_float |-> is_float,
              high |-> 0]

IntNum(n) == Whole(0, n, FALSE)

FloatNum(n) == Whole(0, n, TRUE)

DigitValue(c) ==
    CASE c = "0" -> 0 [] c = "1" -> 1 [] c = "2" -> 2 [] c = "3" -> 3 [] c = "4" -> 4
      [] c = "5" -> 5 [] c = "6" -> 6 [] c = "7" -> 7 [] c = "8" -> 8 [] c = "9" -> 9

RECURSIVE DigitsValue(_)
DigitsValue(s) ==
    IF s = <<>> THEN 0
    ELSE 10 * DigitsValue(SubSeq(s, 1, Len(s) - 1)) + DigitValue(s[Len(s)])

AllAsciiDigits(s) == \A i \in 1..Len(s) : s[i] \in AsciiDigits

\* the text without its optional leading sign
Unsigned(s) == IF Len(s) > 0 /\ s[1] \in {"-", "+"} THEN Tail(s) ELSE s

Sign(s) == IF Len(s) > 0 /\ s[1] = "-" THEN -1 ELSE 1

DotPositions(s) == {i \in 1..Len(s) : s[i] = "."}

\* int(s) succeeds: an optional sign and at least one decimal digit
IntParses(s) == Len(Unsigned(s)) > 0 /\ AllAsciiDigits(Unsigned(s))

\* the value of a numeral, its last eight digits in the low limb
DigitsWhole(digits, sign, is_float) ==
    Whole(sign * DigitsValue(SubSeq(digits, 1, Len(digits) - 8)),
          sign * DigitsValue(SubSeq(digits, IF Len(digits) > 8 THEN Len(digits) - 7 ELSE 1,
                                    Len(digits))),
          is_float)

int(s) == DigitsWhole(Unsigned(s), Sign(s), FALSE)

\* the decimal forms float(s) accepts: digits with at most one '.', at least one digit
DecimalParses(s) ==
    LET u == Unsigned(s)
        d == DotPositions(u)
    IN  /\ Cardinality(d) <= 1
        /\ Len(u) > Cardinality(d)
        /\ \A i \in 1..Len(u) : u[i] \in AsciiDigits \cup {"."}

DecimalValue(s) ==
    LET u == Unsigned(s)
        d == DotPositions(u)
        p == IF d = {} THEN Len(u) + 1 ELSE CHOOSE i \in d : TRUE
        digits == SubSeq(u, 1, p - 1) \o SubSeq(u, p + 1, Len(u))
    IN  IF d = {} \/ p = Len(u)
        THEN RoundDouble(DigitsWhole(digits, Sign(s), TRUE))
        ELSE Num(Sign(s) * DigitsValue(digits), Pow10(Len(u) - p), TRUE)

----------------------------------------------------------------------------
(* Arithmetic of Python numbers.  den = 0 encodes the non-finite floats:    *)
(* num # 0 is +inf / -inf, num = 0 is nan.                                  *)

Inf == [num |-> 1, den |-> 0, is_float |-> TRUE, high |-> 0]

NaN == [num |-> 0, den |-> 0, is_float |-> TRUE, high |-> 0]

IsNaN(a) == a.den = 0 /\ a.num = 0

IsZero(a) == a.den # 0 /\ a.num = 0 /\ a.high = 0

SignOf(a) ==
    IF a.high < 0 \/ a.num < 0 THEN -1 ELSE IF a.high > 0 \/ a.num > 0 THEN 1 ELSE 0

NumNeg(a) == [a EXCEPT !.num = -a.num, !.high = -a.high]

\* the result of an operation on whole numbers: exact for ints, the nearest
\* float when an operand is a float
Rounded(a) == IF a.is_float THEN RoundDouble(a) ELSE a

WholeResult(high, num, is_float) == Rounded(Whole(high, num, is_float))

NumAdd(a, b) ==
    IF a.den = 0 \/ b.den = 0
    THEN IF IsNaN(a) \/ IsNaN(b) \/ (a.den = 0 /\ b.den = 0 /\ a.num # b.num)
         THEN NaN
         ELSE IF a.den = 0 THEN a ELSE b
    ELSE IF a.den = 1 /\ b.den = 1
         THEN WholeResult(a.high + b.high, a.num + b.num, a.is_float \/ b.is_float)
         ELSE Num(Numerator(a) * b.den + Numerator(b) * a.den, a.den * b.den,
                  a.is_float \/ b.is_float)

NumSub(a, b) == NumAdd(a, NumNeg(b))

NumMul(a, b) ==
    IF a.den = 0 \/ b.den = 0
    THEN IF IsNaN(a) \/ IsNaN(b) \/ IsZero(a) \/ IsZero(b)
         THEN NaN
         ELSE [Inf EXCEPT !.num = SignOf(a) * SignOf(b)]
    ELSE Num(Numerator(a) * Numerator(b), a.den * b.den, a.is_float \/ b.is_float)

\* true division a / b for b # 0: always a float
NumDiv(a, b) ==
    IF a.den = 0 \/ b.den = 0
    THEN IF IsNaN(a) \/ IsNaN(b) \/ (a.den = 0 /\ b.den = 0)
         THEN NaN
         ELSE IF a.den = 0
              THEN [Inf EXCEPT !.num = SignOf(a) * SignOf(b)]
              ELSE FloatNum(0)
    ELSE Num(Numerator(a) * b.den, a.den * Numerator(b), TRUE)

NumEq(a, b) ==
    /\ ~IsNaN(a)
    /\ ~IsNaN(b)
    /\ IF a.den = b.den THEN a.high = b.high /\ a.num = b.num
       ELSE Numerator(a) * b.den = Numerator(b) * a.den

NumLt(a, b) ==
    /\ ~IsNaN(a)
    /\ ~IsNaN(b)
    /\ IF a.den = 0 /\ b.den = 0 THEN a.num < b.num
       ELSE IF a.den = 1 /\ b.den = 1
            THEN a.high < b.high \/ (a.high = b.high /\ a.num < b.num)
            ELSE Numerator(a) * b.den < Numerator(b) * a.den

\* float(x) of a number
AsFloat(a) == IF a.den = 1 THEN RoundDouble(a) ELSE [a EXCEPT !.is_float = TRUE]

\* float(True) / float(False)
BoolFloat(b) == IF b THEN FloatNum(1) ELSE FloatNum(0)

----------------------------------------------------------------------------
(* str() of numbers *)

DigitChar(d) ==
    CASE d = 0 -> "0" [] d = 1 -> "1" [] d = 2 -> "2" [] d = 3 -> "3" [] d = 4 -> "4"
      [] d = 5 -> "5" [] d = 6 -> "6" [] d = 7 -> "7" [] d = 8 -> "8" [] d = 9 -> "9"

RECURSIVE NatStr(_)
NatStr(n) == IF n < 10 THEN <<DigitChar(n)>> ELSE Append(NatStr(n \div 10), DigitChar(n % 10))

\* str(n) of an int
IntStr(n) == IF n < 0 THEN <<"-">> \o NatStr(-n) ELSE NatStr(n)

\* the digits of a whole number: those of the high limb, then the eight of
\* the low limb
WholeStr(a) ==
    LET low == NatStr(Abs(a.num))
    IN  (IF SignOf(a) < 0 THEN <<"-">> ELSE <<>>)
        \o (IF a.high = 0 THEN low
            ELSE NatStr(Abs(a.high)) \o [i \in 1..(8 - Len(low)) |-> "0"] \o low)

\* the decimal digits of rem/den < 1, at most k of them
RECURSIVE FractionDigits(_, _, _)
FractionDigits(rem, den, k) ==
    IF rem = 0 \/ k = 0 THEN <<>>
    ELSE <<DigitChar((rem * 10) \div den)>> \o FractionDigits((rem * 10) % den, den, k - 1)

\* the e with 10^e <= num/den < 10^(e+1), for num/den >= 1
RECURSIVE ExponentUp(_, _)
ExponentUp(num, den) == IF num < 10 * den THEN 0 ELSE 1 + ExponentUp(num, 10 * den)

\* the k with 10^(-k) <= num/den < 10^(1-k), for 0 < num/den < 1
RECURSIVE ExponentDown(_, _)
ExponentDown(num, den) == IF num >= den THEN 0 ELSE 1 + ExponentDown(10 * num, den)

\* the decimal exponent of a finite float that is not zero
DecimalExponent(a) ==
    IF Abs(Numerator(a)) >= a.den THEN ExponentUp(Abs(Numerator(a)), a.den)
    ELSE -ExponentDown(Abs(Numerator(a)), a.den)

\* digits '.' digits of n/den >= 0; a value with no finite decimal expansion
\* is cut after 17 fraction digits; a whole number ends in whole_suffix
FixedDigits(n, den, whole_suffix) ==
    LET frac == FractionDigits(n % den, den, 17)
    IN  NatStr(n \div den) \o (IF frac = <<>> THEN whole_suffix ELSE <<".">> \o frac)

\* repr of a float: the fixed form for a decimal exponent from -4 to 15,
\* otherwise a mantissa, 'e', a sign and an exponent of two digits or more
FloatStr(a) ==
    CASE a.den = 0 /\ a.num = 0 -> <<"n","a","n">>
      [] a.den = 0 /\ a.num > 0 -> <<"i","n","f">>
      [] a.den = 0 /\ a.num < 0 -> <<"-","i","n","f">>
      [] a.num = 0 /\ a.high = 0 -> <<"0",".","0">>
      [] a.den = 1 /\ Len(WholeStr(a)) - (IF SignOf(a) < 0 THEN 1 ELSE 0) <= 16 ->
            WholeStr(a) \o <<".","0">>
      [] OTHER ->
            LET n == Abs(Numerator(a))
                e == DecimalExponent(a)
                sign == IF a.num < 0 THEN <<"-">> ELSE <<>>
            IN  IF -4 <= e /\ e <= 15
                THEN sign \o FixedDigits(n, a.den, <<".","0">>)
                ELSE sign
                     \o (IF e > 0 THEN FixedDigits(n, a.den * Pow10(e), <<>>)
                         ELSE FixedDigits(n * Pow10(-e), a.den, <<>>))
                     \o <<"e">> \o (IF e < 0 THEN <<"-">> ELSE <<"+">>)
                     \o (IF Abs(e) < 10 THEN <<"0">> ELSE <<>>) \o NatStr(Abs(e))

str(a) == IF a.is_float THEN FloatStr(a) ELSE WholeStr(a)

----------------------------------------------------------------------------
(* Parser (src/compiler/parser.py) *)

ParseError(message, line, column) ==
    [type |-> "ParseError", message |-> message, line |-> line, column |-> column]

\* a built-in exception raised by int() / float(); it has no line or column
ValueError(text) ==
    [type |-> "ValueError", message |-> [text |-> text, args |-> <<>>]]

NoNode == [kind |-> "None"]

Program(declarations, statements) ==
    [kind |-> "Program", declarations |-> declarations, statements |-> statements]

VarDeclaration(name, type, line, column) ==
    [kind |-> "VarDeclaration", name |-> name, type |-> type, line |-> line, column |-> column]

AssignmentStmt(variable, expression, line, column) ==
    [kind |-> "AssignmentStmt", variable |-> variable, expression |-> expression,
     line |-> line, column |-> column]

\* else_block is None or a list: is_none tells which
IfStmt(condition, then_block, elif_blocks, else_block, line, column) ==
    [kind |-> "IfStmt", condition |-> condition, then_block |-> then_block,
     elif_blocks |-> elif_blocks, else_block |-> else_block,
     line |-> line, column |-> column]

NoBlock == [is_none |-> TRUE, statements |-> <<>>]

Block(statements) == [is_none |-> FALSE, statements |-> statements]

WhileStmt(condition, body, line, column) ==
    [kind |-> "WhileStmt", condition |-> condition, body |-> body,
     line |-> line, column |-> column]

PrintStmt(expression, line, column) ==
    [kind |-> "PrintStmt", expression |-> expression, line |-> line, column |-> column]

BinaryOp(left, operator, right, line, column) ==
    [kind |-> "BinaryOp", left |-> left, operator |-> operator, right |-> right,
     line |-> line, column |-> column]

UnaryOp(operator, operand, line, column) ==
    [kind |-> "UnaryOp", operator |-> operator, operand |-> operand,
     line |-> line, column |-> column]

Literal(value, line, column) ==
    [kind |-> "Literal", value |-> value, line |-> line, column |-> column]

Identifier(name, line, column) ==
    [kind |-> "Identifier", name |-> name, line |-> line, column |-> column]

\* result of a parsing method: the exception it raised (or NoError), the
\* cursor self.current afterwards (0-based) and the node it returned
Parsed(cur, node) == [err |-> NoError, cur |-> cur, node |-> node]

Raised(err, cur) == [err |-> err, cur |-> cur, node |-> NoNode]

match(toks, cur, expected_type) ==
    IF cur >= Len(toks)
    THEN [err |-> ParseError([text |-> "Unexpected end of input", args |-> <<expected_type>>], -1, -1),
          cur |-> cur, tok |-> NoToken]
    ELSE LET current_token == toks[cur + 1]
         IN  IF current_token.type = expected_type
             THEN [err |-> NoError, cur |-> cur + 1, tok |-> current_token]
             ELSE [err |-> ParseError([text |-> "Expected but got",
                                       args |-> <<expected_type, current_token.type>>],
                                      current_token.line, current_token.column),
                   cur |-> cur, tok |-> NoToken]

Parser_peek(toks, cur) ==
    IF cur >= Len(toks) THEN Token("EOF", <<>>, -1, -1) ELSE toks[cur + 1]

\* a call inside a parsing method: an exception it raises ends the method
\* as well, otherwise the method goes on with what the call returned
Try(r, Continue(_)) == IF r.err # NoError THEN Raised(r.err, r.cur) ELSE Continue(r)

\* consecutive calls of match: stops at the first one that raises
RECURSIVE MatchEach(_, _, _, _)
MatchEach(toks, cur, types, matched) ==
    IF types = <<>>
    THEN [err |-> NoError, cur |-> cur, toks |-> matched]
    ELSE LET m == match(toks, cur, Head(types))
         IN  IF m.err # NoError
             THEN [err |-> m.err, cur |-> m.cur, toks |-> matched]
             ELSE MatchEach(toks, m.cur, Tail(types), Append(matched, m.tok))

ComparisonTypes == {"EQUALS", "NOT_EQUALS", "LESS_THAN", "GREATER_THAN"}

AdditiveTypes == {"PLUS", "MINUS"}

MultiplicativeTypes == {"MULTIPLY", "DIVIDE"}

RECURSIVE parse_statement(_, _)
RECURSIVE StatementsUntilRBrace(_, _, _)
RECURSIVE parse_expression(_, _)
RECURSIVE parse_comparison(_, _)
RECURSIVE parse_additive(_, _)
RECURSIVE parse_multiplicative(_, _)
RECURSIVE parse_primary(_, _)
RECURSIVE ComparisonLoop(_, _, _)
RECURSIVE AdditiveLoop(_, _, _)
RECURSIVE MultiplicativeLoop(_, _, _)

parse_primary(toks, cur) ==
    LET token == Parser_peek(toks, cur)
    IN  CASE token.type = "INTEGER_LITERAL" ->
                IF IntParses(token.value)
                THEN Parsed(cur + 1, Literal(int(token.value), token.line, token.column))
                ELSE Raised(ValueError("invalid literal for int()"), cur + 1)
          [] token.type = "FLOAT_LITERAL" ->
                IF DecimalParses(token.value)
                THEN Parsed(cur + 1, Literal(DecimalValue(token.value), token.line, token.column))
                ELSE Raised(ValueError("could not convert string to float"), cur + 1)
          [] token.type = "IDENTIFIER" ->
                Parsed(cur + 1, Identifier(token.value, token.line, token.column))
          [] token.type = "LPAREN" ->
                Try(parse_expression(toks, cur + 1), LAMBDA e :
                Try(match(toks, e.cur, "RPAREN"), LAMBDA m :
                    Parsed(m.cur, e.node)))
          [] token.type \in {"PLUS", "MINUS"} ->
                Try(parse_primary(toks, cur + 1), LAMBDA operand :
                    Parsed(operand.cur,
                           UnaryOp(token, operand.node, token.line, token.column)))
          [] OTHER ->
                Raised(ParseError([text |-> "Unexpected token", args |-> <<token.type>>],
                                  token.line, token.column),
                       cur)

MultiplicativeLoop(toks, cur, expr) ==
    LET operator == Parser_peek(toks, cur)
    IN  IF operator.type \in MultiplicativeTypes
        THEN Try(parse_primary(toks, cur + 1), LAMBDA right :
                 MultiplicativeLoop(toks, right.cur,
                     BinaryOp(expr, operator, right.node, operator.line, operator.column)))
        ELSE Parsed(cur, expr)

parse_multiplicative(toks, cur) ==
    Try(parse_primary(toks, cur), LAMBDA expr :
        MultiplicativeLoop(toks, expr.cur, expr.node))

AdditiveLoop(toks, cur, expr) ==
    LET operator == Parser_peek(toks, cur)
    IN  IF operator.type \in AdditiveTypes
        THEN Try(parse_multiplicative(toks, cur + 1), LAMBDA right :
                 AdditiveLoop(toks, right.cur,
                     BinaryOp(expr, operator, right.node, operator.line, operator.column)))
        ELSE Parsed(cur, expr)

parse_additive(toks, cur) ==
    Try(parse_multiplicative(toks, cur), LAMBDA expr :
        AdditiveLoop(toks, expr.cur, expr.node))

ComparisonLoop(toks, cur, expr) ==
    LET operator == Parser_peek(toks, cur)
    IN  IF operator.type \in ComparisonTypes
        THEN Try(parse_additive(toks, cur + 1), LAMBDA right :
                 ComparisonLoop(toks, right.cur,
                     BinaryOp(expr, operator, right.node, operator.line, operator.column)))
        ELSE Parsed(cur, expr)

parse_comparison(toks, cur) ==
    Try(parse_additive(toks, cur), LAMBDA expr :
        ComparisonLoop(toks, expr.cur, expr.node))

parse_expression(toks, cur) == parse_comparison(toks, cur)

\* while self.peek().type != RBRACE: block.append(self.parse_statement())
StatementsUntilRBrace(toks, cur, block) ==
    IF Parser_peek(toks, cur).type # "RBRACE"
    THEN Try(parse_statement(toks, cur), LAMBDA s :
             StatementsUntilRBrace(toks, s.cur, Append(block, s.node)))
    ELSE Parsed(cur, block)

\* '{' statements '}'
BracedBlock(toks, cur) ==
    Try(match(toks, cur, "LBRACE"), LAMBDA m1 :
    Try(StatementsUntilRBrace(toks, m1.cur, <<>>), LAMBDA b :
    Try(match(toks, b.cur, "RBRACE"), LAMBDA m2 :
        Parsed(m2.cur, b.node))))

\* keyword '(' expression ')' '{' statements '}' : the head shared by the if,
\* the chained if and the while; node is [token, condition, block]
ConditionAndBlock(toks, cur, keyword) ==
    Try(MatchEach(toks, cur, <<keyword, "LPAREN">>, <<>>), LAMBDA m1 :
    Try(parse_expression(toks, m1.cur), LAMBDA c :
    Try(match(toks, c.cur, "RPAREN"), LAMBDA m2 :
    Try(BracedBlock(toks, m2.cur), LAMBDA b :
        Parsed(b.cur, [token |-> m1.toks[1], condition |-> c.node, block |-> b.node])))))

parse_assignment(toks, cur) ==
    Try(MatchEach(toks, cur, <<"IDENTIFIER", "ASSIGN">>, <<>>), LAMBDA m1 :
    Try(parse_expression(toks, m1.cur), LAMBDA e :
    Try(match(toks, e.cur, "SEMICOLON"), LAMBDA m2 :
        Parsed(m2.cur, AssignmentStmt(m1.toks[1].value, e.node,
                                      m1.toks[1].line, m1.toks[1].column)))))

\* an if in place of the while: at most one (condition, statements) pair
ElifLoop_once(toks, cur, elif_blocks) ==
    IF Parser_peek(toks, cur).type = "IF"
    THEN Try(ConditionAndBlock(toks, cur, "IF"), LAMBDA e :
             Parsed(e.cur, Append(elif_blocks, [condition |-> e.node.condition,
                                                statements |-> e.node.block])))
    ELSE Parsed(cur, elif_blocks)

\* while self.peek().type == IF: one more (condition, statements) pair
RECURSIVE ElifLoop(_, _, _)
ElifLoop(toks, cur, elif_blocks) ==
    IF Parser_peek(toks, cur).type = "IF"
    THEN Try(ConditionAndBlock(toks, cur, "IF"), LAMBDA e :
             ElifLoop(toks, e.cur,
                      Append(elif_blocks, [condition |-> e.node.condition,
                                           statements |-> e.node.block])))
    ELSE Parsed(cur, elif_blocks)

parse_if_statement(toks, cur) ==
    Try(ConditionAndBlock(toks, cur, "IF"), LAMBDA h :
    Try(ElifLoop(toks, h.cur, <<>>), LAMBDA elifs :
        IF Parser_peek(toks, elifs.cur).type = "ELSE"
        THEN Try(BracedBlock(toks, elifs.cur + 1), LAMBDA b :
                 Parsed(b.cur, IfStmt(h.node.condition, h.node.block, elifs.node,
                                      Block(b.node),
                                      h.node.token.line, h.node.token.column)))
        ELSE Parsed(elifs.cur, IfStmt(h.node.condition, h.node.block, elifs.node, NoBlock,
                                      h.node.token.line, h.node.token.column))))

parse_while_statement(toks, cur) ==
    Try(ConditionAndBlock(toks, cur, "WHILE"), LAMBDA h :
        Parsed(h.cur, WhileStmt(h.node.condition, h.node.block,
                                h.node.token.line, h.node.token.column)))

parse_print_statement(toks, cur) ==
    Try(MatchEach(toks, cur, <<"PRINT", "LPAREN">>, <<>>), LAMBDA m1 :
    Try(parse_expression(toks, m1.cur), LAMBDA e :
    Try(MatchEach(toks, e.cur, <<"RPAREN", "SEMICOLON">>, <<>>), LAMBDA m2 :
        Parsed(m2.cur, PrintStmt(e.node, m1.toks[1].line, m1.toks[1].column)))))

parse_declaration(toks, cur) ==
    Try(MatchEach(toks, cur, <<"VAR", "IDENTIFIER", "ASSIGN">>, <<>>), LAMBDA m1 :
    Try(MatchEach(toks, m1.cur,
                  <<IF Parser_peek(toks, m1.cur).type = "INTEGER" THEN "INTEGER" ELSE "FLOAT",
                    "SEMICOLON">>, <<>>), LAMBDA m2 :
        Parsed(m2.cur, VarDeclaration(m1.toks[2].value, m2.toks[1].value,
                                      m1.toks[2].line, m1.toks[2].column))))

parse_statement(toks, cur) ==
    LET token == Parser_peek(toks, cur)
    IN  CASE token.type = "IDENTIFIER" -> parse_assignment(toks, cur)
          [] token.type = "IF"         -> parse_if_statement(toks, cur)
          [] token.type = "WHILE"      -> parse_while_statement(toks, cur)
          [] token.type = "PRINT"      -> parse_print_statement(toks, cur)
          [] OTHER ->
                Raised(ParseError([text |-> "Unexpected token", args |-> <<token.type>>],
                                  token.line, token.column),
                       cur)

RECURSIVE DeclarationLoop(_, _, _)
DeclarationLoop(toks, cur, declarations) ==
    IF Parser_peek(toks, cur).type = "VAR"
    THEN Try(parse_declaration(toks, cur), LAMBDA d :
             DeclarationLoop(toks, d.cur, Append(declarations, d.node)))
    ELSE Parsed(cur, declarations)

RECURSIVE StatementLoop(_, _, _)
StatementLoop(toks, cur, statements) ==
    IF Parser_peek(toks, cur).type # "EOF"
    THEN Try(parse_statement(toks, cur), LAMBDA s :
             StatementLoop(toks, s.cur, Append(statements, s.node)))
    ELSE Parsed(cur, statements)

parse_program(toks, cur) ==
    Try(DeclarationLoop(toks, cur, <<>>), LAMBDA d :
    Try(StatementLoop(toks, d.cur, <<>>), LAMBDA s :
        Parsed(s.cur, Program(d.node, s.node))))

\* Parser(tokens).parse()
parse(toks) == parse_program(toks, 0)

----------------------------------------------------------------------------
(* Semantic analyzer (src/compiler/semantic.py) *)

\* class SemanticError(Exception): pass  -- it has a message and no line or
\* column attribute (the position is only part of the message text)
SemanticError(text, args) ==
    [type |-> "SemanticError", message |-> [text |-> text, args |-> args]]

type_boolean == <<"b","o","o","l","e","a","n">>

Symbol(name, type, line, column) ==
    [name |-> name, type |-> type, line |-> line, column |-> column]

\* SymbolTable.symbols is a dict: here a function from names to Symbol
EmptyDict == <<>>

\* declare reporting the position of the declaration it rejects
SymbolTable_declare_reports_second(symbols, name, type, line, column) ==
    IF name \in DOMAIN symbols
    THEN [err |-> SemanticError("Variable already declared", <<name, line, column>>),
          symbols |-> symbols]
    ELSE [err |-> NoError,
          symbols |-> [n \in DOMAIN symbols \cup {name} |->
                          IF n = name THEN Symbol(name, type, line, column) ELSE symbols[n]]]

SymbolTable_declare(symbols, name, type, line, column) ==
    IF name \in DOMAIN symbols
    THEN [err |-> SemanticError("Variable already declared",
                                <<name, symbols[name].line, symbols[name].column>>),
          symbols |-> symbols]
    ELSE [err |-> NoError,
          symbols |-> [n \in DOMAIN symbols \cup {name} |->
                          IF n = name THEN Symbol(name, type, line, column) ELSE symbols[n]]]

SymbolTable_lookup(symbols, name, line, column) ==
    IF name \notin DOMAIN symbols
    THEN [err |-> SemanticError("Undefined variable", <<name, line, column>>),
          symbol |-> Symbol(name, <<>>, 0, 0)]
    ELSE [err |-> NoError, symbol |-> symbols[name]]

Typed(type) == [err |-> NoError, type |-> type]

TypeRaised(err) == [err |-> err, type |-> <<>>]

ArithmeticTypes == {"PLUS", "MINUS", "MULTIPLY", "DIVIDE"}

AllComparisonTypes == {"EQUALS", "NOT_EQUALS", "LESS_THAN", "GREATER_THAN",
                       "LESS_THAN_OR_EQUAL", "GREATER_THAN_OR_EQUAL"}

Semantic_visit_literal(node) ==
    IF node.value.is_float THEN Typed(kw_crocodilo) ELSE Typed(kw_bombardino)

Semantic_visit_identifier(symbols, node) ==
    LET s == SymbolTable_lookup(symbols, node.name, node.line, node.column)
    IN  IF s.err # NoError THEN TypeRaised(s.err) ELSE Typed(s.symbol.type)

RECURSIVE Semantic_visit_expression(_, _)
Semantic_visit_binary_op(symbols, node) ==
    LET left_type == Semantic_visit_expression(symbols, node.left)
    IN  IF left_type.err # NoError THEN left_type
        ELSE LET right_type == Semantic_visit_expression(symbols, node.right)
             IN  IF right_type.err # NoError THEN right_type
                 ELSE CASE node.operator.type \in ArithmeticTypes ->
                             IF left_type.type # right_type.type
                             THEN TypeRaised(SemanticError("Type mismatch in binary operation",
                                     <<node.line, node.column, left_type.type, right_type.type>>))
                             ELSE left_type
                        [] node.operator.type \in AllComparisonTypes ->
                             IF left_type.type # right_type.type
                             THEN TypeRaised(SemanticError("Type mismatch in comparison",
                                     <<node.line, node.column, left_type.type, right_type.type>>))
                             ELSE Typed(type_boolean)
                        [] OTHER ->
                             TypeRaised(SemanticError("Unknown operator",
                                     <<node.operator.type, node.line, node.column>>))

Semantic_visit_unary_op(symbols, node) ==
    LET operand_type == Semantic_visit_expression(symbols, node.operand)
    IN  IF operand_type.err # NoError THEN operand_type
        ELSE IF node.operator.type \in {"PLUS", "MINUS"}
             THEN IF operand_type.type \notin {kw_bombardino, kw_crocodilo}
                  THEN TypeRaised(SemanticError("Invalid type for unary operator",
                          <<node.line, node.column, operand_type.type>>))
                  ELSE operand_type
             ELSE TypeRaised(SemanticError("Unknown unary operator",
                          <<node.operator.type, node.line, node.column>>))

Semantic_visit_expression(symbols, node) ==
    CASE node.kind = "BinaryOp"   -> Semantic_visit_binary_op(symbols, node)
      [] node.kind = "UnaryOp"    -> Semantic_visit_unary_op(symbols, node)
      [] node.kind = "Literal"    -> Semantic_visit_literal(node)
      [] node.kind = "Identifier" -> Semantic_visit_identifier(symbols, node)
      [] OTHER -> TypeRaised(SemanticError("Unknown expression type", <<node.kind>>))

Semantic_visit_assignment(symbols, node) ==
    LET s == SymbolTable_lookup(symbols, node.variable, node.line, node.column)
    IN  IF s.err # NoError THEN s.err
        ELSE LET expr_type == Semantic_visit_expression(symbols, node.expression)
             IN  IF expr_type.err # NoError THEN expr_type.err
                 ELSE IF s.symbol.type # expr_type.type
                      THEN SemanticError("Type mismatch in assignment",
                               <<node.line, node.column, s.symbol.type, expr_type.type>>)
                      ELSE NoError

\* the condition check shared by visit_if_statement and visit_while_statement
ConditionError(symbols, node) ==
    LET condition_type == Semantic_visit_expression(symbols, node.condition)
    IN  IF condition_type.err # NoError THEN condition_type.err
        ELSE IF condition_type.type # type_boolean
             THEN SemanticError("Condition must be boolean", <<node.line, node.column>>)
             ELSE NoError

RECURSIVE Semantic_visit_statement(_, _)
\* for stmt in block: self.visit_statement(stmt) -- the first exception raised
RECURSIVE Semantic_visit_block(_, _)
Semantic_visit_block(symbols, block) ==
    IF block = <<>> THEN NoError
    ELSE LET e == Semantic_visit_statement(symbols, Head(block))
         IN  IF e # NoError THEN e ELSE Semantic_visit_block(symbols, Tail(block))

\* the elif_blocks of the node are not visited
Semantic_visit_if_statement(symbols, node) ==
    LET c == ConditionError(symbols, node)
    IN  IF c # NoError THEN c
        ELSE LET t == Semantic_visit_block(symbols, node.then_block)
             IN  IF t # NoError THEN t
                 ELSE IF ~node.else_block.is_none /\ node.else_block.statements # <<>>
                      THEN Semantic_visit_block(symbols, node.else_block.statements)
                      ELSE NoError

Semantic_visit_while_statement(symbols, node) ==
    LET c == ConditionError(symbols, node)
    IN  IF c # NoError THEN c ELSE Semantic_visit_block(symbols, node.body)

Semantic_visit_print_statement(symbols, node) ==
    Semantic_visit_expression(symbols, node.expression).err

Semantic_visit_statement(symbols, node) ==
    CASE node.kind = "AssignmentStmt" -> Semantic_visit_assignment(symbols, node)
      [] node.kind = "IfStmt"         -> Semantic_visit_if_statement(symbols, node)
      [] node.kind = "WhileStmt"      -> Semantic_visit_while_statement(symbols, node)
      [] node.kind = "PrintStmt"      -> Semantic_visit_print_statement(symbols, node)
      [] OTHER -> SemanticError("Unknown statement type", <<node.kind>>)

\* for decl in ast.declarations: self.visit_declaration(decl)
RECURSIVE DeclareAll(_, _)
DeclareAll(symbols, declarations) ==
    IF declarations = <<>> THEN [err |-> NoError, symbols |-> symbols]
    ELSE LET d == Head(declarations)
             r == SymbolTable_declare(symbols, d.name, d.type, d.line, d.column)
         IN  IF r.err # NoError THEN r ELSE DeclareAll(r.symbols, Tail(declarations))

\* SemanticAnalyzer().analyze(ast): the exception raised (or NoError) and the
\* symbol table built
analyze(program) ==
    LET d == DeclareAll(EmptyDict, program.declarations)
    IN  IF d.err # NoError THEN d
        ELSE [err |-> Semantic_visit_block(d.symbols, program.statements),
              symbols |-> d.symbols]

----------------------------------------------------------------------------
(* float(s) of a text, as Interpreter._get_value and _constant_folding use it *)

NonFiniteTexts == { <<"i","n","f">>, <<"i","n","f","i","n","i","t","y">>, <<"n","a","n">> }

ExponentPositions(s) == {i \in 1..Len(s) : s[i] \in {"e", "E"}}

\* a decimal form, 'e' or 'E', and an exponent with an optional sign
ExponentParses(s) ==
    /\ Cardinality(ExponentPositions(s)) = 1
    /\ LET p == CHOOSE i \in ExponentPositions(s) : TRUE
       IN  DecimalParses(SubSeq(s, 1, p - 1)) /\ IntParses(SubSeq(s, p + 1, Len(s)))

ExponentValue(s) ==
    LET p == CHOOSE i \in ExponentPositions(s) : TRUE
        m == DecimalValue(SubSeq(s, 1, p - 1))
        e == Numerator(int(SubSeq(s, p + 1, Len(s))))
    IN  IF e >= 0 THEN Num(Numerator(m) * Pow10(e), m.den, TRUE)
        ELSE Num(Numerator(m), m.den * Pow10(-e), TRUE)

FloatParses(s) ==
    DecimalParses(s) \/ ExponentParses(s) \/ lower(Unsigned(s)) \in NonFiniteTexts

float(s) ==
    IF DecimalParses(s) THEN DecimalValue(s)
    ELSE IF ExponentParses(s) THEN ExponentValue(s)
    ELSE IF lower(Unsigned(s)) = <<"n","a","n">> THEN NaN
         ELSE [Inf EXCEPT !.num = Sign(s)]

Contains(s, c) == \E i \in 1..Len(s) : s[i] = c

startswith(s, prefix) == Len(s) >= Len(prefix) /\ SubSeq(s, 1, Len(prefix)) = prefix

----------------------------------------------------------------------------
(* TAC generator (src/compiler/intermediate.py) *)

PrintInstruction(value) == [kind |-> "Print", value |-> value]

Assignment(target, source) == [kind |-> "Assignment", target |-> target, source |-> source]

BinaryOperation(target, left, operator, right) ==
    [kind |-> "BinaryOperation", target |-> target, left |-> left,
     operator |-> operator, right |-> right]

UnaryOperation(target, operator, operand) ==
    [kind |-> "UnaryOperation", target |-> target, operator |-> operator, operand |-> operand]

Label(name) == [kind |-> "Label", name |-> name]

Jump(target) == [kind |-> "Jump", target |-> target]

ConditionalJump(condition, target) ==
    [kind |-> "ConditionalJump", condition |-> condition, target |-> target]

\* IntermediateCodeGenerator.__init__ ; err is the exception that ended the
\* traversal, after which nothing more is done
GeneratorInit ==
    [instructions |-> <<>>, temp_counter |-> 0, label_counter |-> 0,
     variables |-> EmptyDict, err |-> NoError]

\* self.instructions.append(inst)
Emit(g, inst) ==
    IF g.err # NoError THEN g ELSE [g EXCEPT !.instructions = Append(@, inst)]

\* new_temp without the increment of temp_counter
new_temp_reused(g) ==
    [g |-> g, name |-> <<"t">> \o IntStr(g.temp_counter)]

new_temp(g) ==
    [g |-> IF g.err # NoError THEN g ELSE [g EXCEPT !.temp_counter = @ + 1],
     name |-> <<"t">> \o IntStr(g.temp_counter)]

\* new_label without the increment of label_counter
new_label_reused(g) ==
    [g |-> g, name |-> <<"L">> \o IntStr(g.label_counter)]

new_label(g) ==
    [g |-> IF g.err # NoError THEN g ELSE [g EXCEPT !.label_counter = @ + 1],
     name |-> <<"L">> \o IntStr(g.label_counter)]

\* f"not {result}"
NotCondition(result) == <<"n","o","t"," ">> \o result

Gen_visit_declaration(g, node) ==
    [g EXCEPT !.variables = [n \in DOMAIN @ \cup {node.name} |->
                                IF n = node.name THEN node.type ELSE @[n]]]

Gen_visit_literal(node) == str(node.value)

Gen_visit_identifier(node) == node.name

\* a local variable of a visit method, bound to the value of a call; the test
\* has the call evaluated before the rest of the method, as in the source
Bind(value, Rest(_)) == IF value = value THEN Rest(value) ELSE Rest(value)

RECURSIVE Gen_visit_expression(_, _)
Gen_visit_binary_op(g, node) ==
    Bind(Gen_visit_expression(g, node.left), LAMBDA left_result :
    Bind(Gen_visit_expression(left_result.g, node.right), LAMBDA right_result :
    Bind(new_temp(right_result.g), LAMBDA result :
        [g |-> Emit(result.g, BinaryOperation(result.name, left_result.result,
                                              node.operator.value, right_result.result)),
         result |-> result.name])))

Gen_visit_unary_op(g, node) ==
    Bind(Gen_visit_expression(g, node.operand), LAMBDA operand_result :
    Bind(new_temp(operand_result.g), LAMBDA result :
        [g |-> Emit(result.g, UnaryOperation(result.name, node.operator.value,
                                             operand_result.result)),
         result |-> result.name]))

Gen_visit_expression(g, node) ==
    CASE node.kind = "BinaryOp"   -> Gen_visit_binary_op(g, node)
      [] node.kind = "UnaryOp"    -> Gen_visit_unary_op(g, node)
      [] node.kind = "Literal"    -> [g |-> g, result |-> Gen_visit_literal(node)]
      [] node.kind = "Identifier" -> [g |-> g, result |-> Gen_visit_identifier(node)]
      [] OTHER -> [g |-> IF g.err # NoError THEN g
                         ELSE [g EXCEPT !.err = ValueError("Unknown expression type")],
                   result |-> <<>>]

Gen_visit_assignment(g, node) ==
    Bind(Gen_visit_expression(g, node.expression), LAMBDA expr_result :
        Emit(expr_result.g, Assignment(node.variable, expr_result.result)))

Gen_visit_print_statement(g, node) ==
    Bind(Gen_visit_expression(g, node.expression), LAMBDA value :
        Emit(value.g, PrintInstruction(value.result)))

RECURSIVE Gen_visit_statement(_, _)
\* for stmt in block: self.visit_statement(stmt)
RECURSIVE Gen_visit_block(_, _)
Gen_visit_block(g, block) ==
    IF block = <<>> THEN g
    ELSE Gen_visit_block(Gen_visit_statement(g, Head(block)), Tail(block))

\* the loop over node.elif_blocks; else_label is carried from one round to the next
RECURSIVE ElifBlocks(_, _, _, _)
ElifBlocks(g, elif_blocks, else_label, end_label) ==
    IF elif_blocks = <<>> THEN [g |-> g, else_label |-> else_label]
    ELSE Bind(new_label(Emit(g, Label(else_label))), LAMBDA next_label :
         Bind(Gen_visit_expression(next_label.g, Head(elif_blocks).condition),
              LAMBDA elif_result :
         Bind(Emit(elif_result.g,
                   ConditionalJump(NotCondition(elif_result.result), next_label.name)),
              LAMBDA g2 :
         Bind(Gen_visit_block(g2, Head(elif_blocks).statements), LAMBDA g3 :
             ElifBlocks(Emit(g3, Jump(end_label)), Tail(elif_blocks),
                        next_label.name, end_label)))))

\* visit_if_statement whose first conditional jump goes to end_label, past
\* the chained ifs and the else-block
Gen_visit_if_statement_skips_chain(g, node) ==
    Bind(Gen_visit_expression(g, node.condition), LAMBDA condition_result :
    Bind(new_label(condition_result.g), LAMBDA else_label :
    Bind(new_label(else_label.g), LAMBDA end_label :
    Bind(Emit(end_label.g,
              ConditionalJump(NotCondition(condition_result.result), end_label.name)),
         LAMBDA g1 :
    Bind(Gen_visit_block(g1, node.then_block), LAMBDA g2 :
    Bind(ElifBlocks(Emit(g2, Jump(end_label.name)), node.elif_blocks,
                    else_label.name, end_label.name), LAMBDA e :
    Bind(Emit(e.g, Label(e.else_label)), LAMBDA g4 :
    Bind(IF ~node.else_block.is_none /\ node.else_block.statements # <<>>
         THEN Gen_visit_block(g4, node.else_block.statements)
         ELSE g4, LAMBDA g5 :
        Emit(g5, Label(end_label.name))))))))))

Gen_visit_if_statement(g, node) ==
    Bind(Gen_visit_expression(g, node.condition), LAMBDA condition_result :
    Bind(new_label(condition_result.g), LAMBDA else_label :
    Bind(new_label(else_label.g), LAMBDA end_label :
    Bind(Emit(end_label.g,
              ConditionalJump(NotCondition(condition_result.result), else_label.name)),
         LAMBDA g1 :
    Bind(Gen_visit_block(g1, node.then_block), LAMBDA g2 :
    Bind(ElifBlocks(Emit(g2, Jump(end_label.name)), node.elif_blocks,
                    else_label.name, end_label.name), LAMBDA e :
    Bind(Emit(e.g, Label(e.else_label)), LAMBDA g4 :
    Bind(IF ~node.else_block.is_none /\ node.else_block.statements # <<>>
         THEN Gen_visit_block(g4, node.else_block.statements)
         ELSE g4, LAMBDA g5 :
        Emit(g5, Label(end_label.name))))))))))

\* visit_while_statement without the closing Label(end_label)
Gen_visit_while_statement_no_end_label(g, node) ==
    Bind(new_label(g), LAMBDA start_label :
    Bind(new_label(start_label.g), LAMBDA end_label :
    Bind(Gen_visit_expression(Emit(end_label.g, Label(start_label.name)), node.condition),
         LAMBDA condition_result :
    Bind(Emit(condition_result.g,
              ConditionalJump(NotCondition(condition_result.result), end_label.name)),
         LAMBDA g2 :
    Bind(Gen_visit_block(g2, node.body), LAMBDA g3 :
        Emit(g3, Jump(start_label.name)))))))

Gen_visit_while_statement(g, node) ==
    Bind(new_label(g), LAMBDA start_label :
    Bind(new_label(start_label.g), LAMBDA end_label :
    Bind(Gen_visit_expression(Emit(end_label.g, Label(start_label.name)), node.condition),
         LAMBDA condition_result :
    Bind(Emit(condition_result.g,
              ConditionalJump(NotCondition(condition_result.result), end_label.name)),
         LAMBDA g2 :
    Bind(Gen_visit_block(g2, node.body), LAMBDA g3 :
        Emit(Emit(g3, Jump(start_label.name)), Label(end_label.name)))))))

Gen_visit_statement(g, node) ==
    CASE node.kind = "AssignmentStmt" -> Gen_visit_assignment(g, node)
      [] node.kind = "IfStmt"         -> Gen_visit_if_statement(g, node)
      [] node.kind = "WhileStmt"      -> Gen_visit_while_statement(g, node)
      [] node.kind = "PrintStmt"      -> Gen_visit_print_statement(g, node)
      [] OTHER                        -> g

RECURSIVE Gen_visit_declarations(_, _)
Gen_visit_declarations(g, declarations) ==
    IF declarations = <<>> THEN g
    ELSE Gen_visit_declarations(Gen_visit_declaration(g, Head(declarations)),
                                Tail(declarations))

\* IntermediateCodeGenerator.generate
generate(g, program) ==
    Gen_visit_block(Gen_visit_declarations(g, program.declarations), program.statements)

----------------------------------------------------------------------------
(* Optimizer (src/compiler/intermediate.py) *)

\* float(s) if '.' in s else int(s) raises ValueError
OperandParses(s) == IF Contains(s, ".") THEN FloatParses(s) ELSE IntParses(s)

OperandValue(s) == IF Contains(s, ".") THEN float(s) ELSE int(s)

\* a folding that leaves an operation on the folded value in place
FoldInstruction_keeps_operation(inst) ==
    IF inst.kind = "BinaryOperation" /\ OperandParses(inst.left) /\ OperandParses(inst.right)
       /\ inst.operator \in {<<"+">>, <<"-">>, <<"*">>}
    THEN LET left  == OperandValue(inst.left)
             right == OperandValue(inst.right)
             result == CASE inst.operator = <<"+">> -> NumAdd(left, right)
                         [] inst.operator = <<"-">> -> NumSub(left, right)
                         [] inst.operator = <<"*">> -> NumMul(left, right)
         IN  BinaryOperation(inst.target, str(result), <<"+">>, <<"1">>)
    ELSE inst

\* the instruction that _constant_folding leaves at the place of inst
FoldInstruction(inst) ==
    IF inst.kind = "BinaryOperation" /\ OperandParses(inst.left) /\ OperandParses(inst.right)
    THEN LET left  == OperandValue(inst.left)
             right == OperandValue(inst.right)
         IN  CASE inst.operator = <<"+">> -> Assignment(inst.target, str(NumAdd(left, right)))
               [] inst.operator = <<"-">> -> Assignment(inst.target, str(NumSub(left, right)))
               [] inst.operator = <<"*">> -> Assignment(inst.target, str(NumMul(left, right)))
               [] inst.operator = <<"/">> /\ ~IsZero(right) ->
                     Assignment(inst.target, str(NumDiv(left, right)))
               [] OTHER -> inst
    ELSE inst

_constant_folding(instructions) ==
    [i \in 1..Len(instructions) |-> FoldInstruction(instructions[i])]

\* the set used_vars collected by the first loop
UsedVars(instructions) ==
    { instructions[i].target : i \in
        { j \in 1..Len(instructions) :
            /\ instructions[j].kind \in {"Assignment", "BinaryOperation", "UnaryOperation"}
            /\ ~startswith(instructions[j].target, <<"t">>) } }

\* a test that also drops the Print of a temporary
Eliminated_with_prints(inst, used_vars) ==
    \/ /\ inst.kind \in {"Assignment", "BinaryOperation", "UnaryOperation"}
       /\ startswith(inst.target, <<"t">>)
       /\ inst.target \notin used_vars
    \/ /\ inst.kind = "Print"
       /\ startswith(inst.value, <<"t">>)
       /\ inst.value \notin used_vars

\* the test of the list comprehension: inst is dropped
Eliminated(inst, used_vars) ==
    /\ inst.kind \in {"Assignment", "BinaryOperation", "UnaryOperation"}
    /\ startswith(inst.target, <<"t">>)
    /\ inst.target \notin used_vars

\* the new list that _dead_code_elimination binds to self.instructions
_dead_code_elimination(instructions) ==
    LET used_vars == UsedVars(instructions)
        Kept(inst) == ~Eliminated(inst, used_vars)
    IN  SelectSeq(instructions, Kept)

----------------------------------------------------------------------------
(* Interpreter (src/compiler/interpreter.py) *)

\* d[k] = v on a dict
DictSet(d, k, v) == [n \in DOMAIN d \cup {k} |-> IF n = k THEN v ELSE d[n]]

\* Interpreter.__init__ ; err is the exception that ended execute
InterpreterInit ==
    [variables |-> EmptyDict, temporaries |-> EmptyDict, labels |-> EmptyDict,
     current_instruction |-> 0, err |-> NoError]

KeyError(key) == [type |-> "KeyError", message |-> [text |-> "KeyError", args |-> <<key>>]]

\* first pass of execute: self.labels[inst.name] = i, a later label of the
\* same name overwriting an earlier one (i is 0-based)
CollectLabels(instructions) ==
    LET at(name) == {i \in 1..Len(instructions) :
                        instructions[i].kind = "Label" /\ instructions[i].name = name}
        names == {instructions[i].name : i \in {j \in 1..Len(instructions) :
                                                  instructions[j].kind = "Label"}}
    IN  [n \in names |-> (CHOOSE i \in at(n) : \A j \in at(n) : j <= i) - 1]

_get_value(it, name) ==
    IF FloatParses(name) THEN float(name)
    ELSE IF name \in DOMAIN it.variables THEN it.variables[name]
         ELSE IF name \in DOMAIN it.temporaries THEN it.temporaries[name]
              ELSE FloatNum(0)

_set_value(it, name, value) ==
    IF startswith(name, <<"t">>)
    THEN [it EXCEPT !.temporaries = DictSet(@, name, value)]
    ELSE [it EXCEPT !.variables = DictSet(@, name, value)]

\* _apply_operator dividing by zero as IEEE arithmetic does
_apply_operator_divides_by_zero(left, operator, right) ==
    CASE operator = <<"+">>     -> NumAdd(left, right)
      [] operator = <<"-">>     -> NumSub(left, right)
      [] operator = <<"*">>     -> NumMul(left, right)
      [] operator = <<"/">>     -> IF ~IsZero(right) THEN NumDiv(left, right)
                                   ELSE IF IsZero(left) THEN NaN
                                        ELSE [Inf EXCEPT !.num = SignOf(left)]
      [] operator = <<"<","=">> -> BoolFloat(NumLt(left, right) \/ NumEq(left, right))
      [] operator = <<">","=">> -> BoolFloat(NumLt(right, left) \/ NumEq(left, right))
      [] operator = <<"<">>     -> BoolFloat(NumLt(left, right))
      [] operator = <<">">>     -> BoolFloat(NumLt(right, left))
      [] operator = <<"=","=">> -> BoolFloat(NumEq(left, right))
      [] operator = <<"!","=">> -> BoolFloat(~NumEq(left, right))
      [] OTHER                  -> FloatNum(0)

_apply_operator(left, operator, right) ==
    CASE operator = <<"+">>     -> NumAdd(left, right)
      [] operator = <<"-">>     -> NumSub(left, right)
      [] operator = <<"*">>     -> NumMul(left, right)
      [] operator = <<"/">>     -> IF ~IsZero(right) THEN NumDiv(left, right) ELSE IntNum(0)
      [] operator = <<"<","=">> -> BoolFloat(NumLt(left, right) \/ NumEq(left, right))
      [] operator = <<">","=">> -> BoolFloat(NumLt(right, left) \/ NumEq(left, right))
      [] operator = <<"<">>     -> BoolFloat(NumLt(left, right))
      [] operator = <<">">>     -> BoolFloat(NumLt(right, left))
      [] operator = <<"=","=">> -> BoolFloat(NumEq(left, right))
      [] operator = <<"!","=">> -> BoolFloat(~NumEq(left, right))
      [] OTHER                  -> FloatNum(0)

_apply_unary_operator(operator, operand) ==
    CASE operator = <<"+">> -> operand
      [] operator = <<"-">> -> NumNeg(operand)
      [] OTHER              -> FloatNum(0)

\* self.current_instruction = self.labels[target] - 1, or KeyError
JumpTo(it, target) ==
    IF target \in DOMAIN it.labels
    THEN [it EXCEPT !.current_instruction = it.labels[target] - 1]
    ELSE [it EXCEPT !.err = KeyError(target)]

\* _execute_instruction: the interpreter afterwards and the values printed
_execute_instruction(it, inst) ==
    CASE inst.kind = "Assignment" ->
            [it |-> _set_value(it, inst.target, _get_value(it, inst.source)), out |-> <<>>]
      [] inst.kind = "BinaryOperation" ->
            [it |-> _set_value(it, inst.target,
                        _apply_operator(_get_value(it, inst.left), inst.operator,
                                        _get_value(it, inst.right))),
             out |-> <<>>]
      [] inst.kind = "UnaryOperation" ->
            [it |-> _set_value(it, inst.target,
                        _apply_unary_operator(inst.operator, _get_value(it, inst.operand))),
             out |-> <<>>]
      [] inst.kind = "Print" ->
            [it |-> it, out |-> <<str(_get_value(it, inst.value))>>]
      [] inst.kind = "Jump" ->
            [it |-> JumpTo(it, inst.target), out |-> <<>>]
      [] inst.kind = "ConditionalJump" ->
            LET condition == startswith(inst.condition, <<"n","o","t"," ">>)
                value == _get_value(it, IF condition
                                        THEN SubSeq(inst.condition, 5, Len(inst.condition))
                                        ELSE inst.condition)
            IN  [it |-> IF condition # (~IsZero(value)) THEN JumpTo(it, inst.target) ELSE it,
                 out |-> <<>>]
      [] OTHER -> [it |-> it, out |-> <<>>]

\* one round of the while loop of execute
ExecuteOne(it, instructions) ==
    LET r == _execute_instruction(it, instructions[it.current_instruction + 1])
    IN  [it  |-> IF r.it.err # NoError THEN r.it
                 ELSE [r.it EXCEPT !.current_instruction = @ + 1],
         out |-> r.out]

\* the while loop of execute, followed for at most rounds rounds: the
\* interpreter afterwards and the values printed
RECURSIVE ExecuteLoop(_, _, _, _)
ExecuteLoop(it, instructions, out, rounds) ==
    IF rounds = 0 \/ it.err # NoError \/ it.current_instruction >= Len(instructions)
    THEN [it |-> it, out |-> out]
    ELSE LET r == ExecuteOne(it, instructions)
         IN  ExecuteLoop(r.it, instructions, out \o r.out, rounds - 1)

\* Interpreter().execute(instructions)
execute(instructions) ==
    ExecuteLoop([InterpreterInit EXCEPT !.labels = CollectLabels(instructions)],
                instructions, <<>>, MaxSteps)

----------------------------------------------------------------------------
(* Error handler (src/compiler/error.py) *)

\* str.splitlines() for texts whose only line boundary is "\n"
RECURSIVE splitlines(_)
splitlines(s) ==
    IF s = <<>> THEN <<>>
    ELSE LET nl == {i \in 1..Len(s) : s[i] = "\n"}
         IN  IF nl = {} THEN <<s>>
             ELSE LET k == CHOOSE i \in nl : \A j \in nl : i <= j
                  IN  <<SubSeq(s, 1, k - 1)>> \o splitlines(SubSeq(s, k + 1, Len(s)))

CompilerError(message, line, column, error_type, source_line) ==
    [message |-> message, line |-> line, column |-> column,
     error_type |-> error_type, source_line |-> source_line]

\* ErrorHandler.add_error: the list self.errors afterwards
add_error(error_list, src, message, line, column, error_type) ==
    LET lines == splitlines(src)
        source_line == IF 0 < line /\ line <= Len(lines)
                       THEN [is_none |-> FALSE, text |-> lines[line]]
                       ELSE [is_none |-> TRUE, text |-> <<>>]
    IN  Append(error_list, CompilerError(message, line, column, error_type, source_line))

----------------------------------------------------------------------------
(* Source texts given to the compiler.  A text is written as a sequence of  *)
(* lexemes, joined by single blanks.                                        *)

RECURSIVE Render(_)
Render(lexemes) ==
    IF lexemes = <<>> THEN <<>>
    ELSE IF Len(lexemes) = 1 THEN lexemes[1]
         ELSE LET h == Len(lexemes) \div 2
              IN  Render(SubSeq(lexemes, 1, h)) \o <<" ">>
                  \o Render(SubSeq(lexemes, h + 1, Len(lexemes)))

x_ == <<"x">>
t0_ == <<"t","0">>
tx_ == <<"t","x">>
y_ == <<"y">>
Eq == <<"=">>
Semi == <<";">>
LP == <<"(">>
RP == <<")">>
LB == <<"{">>
RB == <<"}">>
NL == <<"\n">>

Bombardino_ == <<"B","o","m","b","a","r","d","i","n","o">>

Decl(name, type) == <<kw_tongtongsahur, name, Eq, type, Semi, NL>>

\* x, t0 and tx declared as integers
IntDecls == Decl(x_, kw_bombardino) \o Decl(t0_, kw_bombardino) \o Decl(tx_, kw_bombardino)

DeclVariants ==
    { <<>>,
      Decl(x_, kw_bombardino),
      Decl(x_, kw_crocodilo),
      Decl(x_, Bombardino_),
      Decl(x_, kw_bombardino) \o Decl(x_, kw_crocodilo),
      Decl(x_, kw_crocodilo) \o Decl(t0_, kw_bombardino) \o Decl(x_, kw_crocodilo),
      Decl(x_, kw_crocodilo) \o Decl(t0_, kw_crocodilo) }

Assign(name, expr) == <<name, Eq>> \o expr \o <<Semi>>

BaseStatements ==
    { Assign(x_, <<<<"1">>, <<"+">>, <<"2">>>>),
      Assign(x_, <<x_, <<"+">>, <<"1">>>>),
      Assign(t0_, <<<<"1">>>>),
      Assign(x_, <<t0_, <<"+">>, <<"2">>>>),
      Assign(tx_, <<<<"-">>, x_>>),
      <<kw_drip, LP, x_, <<"*">>, <<"2">>, RP, Semi>> }

\* 2^53 + 1, the first integer that no float holds
Odd53 == <<"9","0","0","7","1","9","9","2","5","4","7","4","0","9","9","3">>

OtherStatements ==
    { Assign(x_, <<<<"2",".","5">>>>),
      Assign(x_, <<Odd53, <<"+">>, <<"2">>>>) \o <<kw_drip, LP, x_, RP, Semi>>,
      Assign(x_, <<Odd53, <<"-">>, <<"1">>>>) \o <<kw_drip, LP, x_, RP, Semi>>,
      Assign(x_, <<<<"2",".","5">>, <<"/">>, <<"5">>>>),
      Assign(x_, <<<<"0",".","0","0","0","0","1">>, <<"+">>, <<"1",".","5">>>>),
      Assign(x_, <<<<"1",".","5">>, <<"*">>, <<"0",".","0","0","0","0","1","5">>>>),
      Assign(x_, <<x_, <<"/">>, <<"0">>>>),
      Assign(x_, <<<<"4">>, <<"/">>, <<"0">>>>),
      Assign(x_, <<<<"2",".","5">>, <<"/">>, <<"0",".","0">>>>),
      Assign(x_, <<<<"4">>, <<"/">>, LP, <<"1">>, <<"-">>, <<"1">>, RP>>),
      Assign(x_, <<<<"0">>, <<"/">>, x_>>),
      Assign(t0_, <<t0_, <<"-">>, <<"0",".","5">>>>),
      Assign(x_, <<x_, <<"<">>, <<"1">>>>),
      Assign(y_, <<<<"1">>>>),
      <<kw_chimpanzini, LP, x_, RP, LB, RB>>,
      <<kw_patapim, LP, x_, <<"<">>, <<"1",".","0">>, RP, LB, RB>>,
      <<kw_chimpanzini, LP, x_, <<"=","=">>, <<"1">>, RP, LB, RB,
        kw_chimpanzini, LP, x_, RP, LB, RB>>,
      <<kw_chimpanzini, LP, LP, x_, <<"<">>, <<"1">>, RP, <<"+">>,
        LP, x_, <<"<">>, <<"2">>, RP, RP, LB, RB>>,
      <<kw_patapim, LP, LP, x_, <<"=","=">>, <<"1">>, RP, <<"*">>,
        LP, x_, <<"<">>, <<"2">>, RP, RP, LB, RB>>,
      <<kw_chimpanzini, LP, LP, x_, <<"<">>, <<"1">>, RP, <<"=","=">>,
        LP, x_, <<"<">>, <<"2">>, RP, RP, LB, RB>>,
      <<kw_patapim, LP, <<"-">>, LP, x_, <<"<">>, <<"1">>, RP, RP, LB, RB>> }

\* texts that the lexer or the parser rejects, or on which int() fails
BrokenStatements ==
    { <<x_, Eq, <<"1">>, <<"@">>, Semi>>,
      <<x_, Eq, <<"1",".","2",".","3">>, Semi>>,
      <<x_, Eq, <<"1">>>>,
      <<x_, Eq, LP, <<"1">>, Semi>>,
      <<kw_chimpanzini, LP, x_, <<"<","=">>, <<"1">>, RP, LB, RB>>,
      <<kw_patapim, LP, x_, <<"<">>, <<"1">>, RP, LB, x_, Eq, <<"1">>, Semi>>,
      <<x_, Eq, <<"1">>, Semi>> \o Decl(x_, kw_bombardino),
      <<kw_bananini, LB, RB>>,
      <<x_, Eq, <<"1", SupTwo>>, Semi>>,
      <<kw_drip, LP, <<SupTwo, ".", "5">>, RP, Semi>>,
      <<kw_patapim, LP, x_, <<">","=">>, <<"1">>, RP, LB, RB>>,
      <<kw_chimpanzini, LP, LP, x_, <<"<","=">>, <<"1">>, RP, RP, LB, RB>>,
      <<kw_chimpanzini, LP, x_, <<"=","=">>, <<"1">>, RP, LB, RB,
        kw_chimpanzini, LP, x_, <<">","=">>, <<"1">>, RP, LB, RB>>,
      <<kw_chimpanzini, LP, <<"1", SupTwo>>, <<"<","=">>, <<"1">>, RP, LB, RB>> }

Cond1 == <<LP, x_, <<"<">>, <<"2">>, RP>>
Cond2 == <<LP, x_, <<"=","=">>, <<"3">>, RP>>

Braced(stmts) == <<LB>> \o stmts \o <<RB>>

Step1 == Assign(x_, <<x_, <<"+">>, <<"1">>>>)

Step2 == Assign(t0_, <<<<"1">>>>)

IfText(s) == <<kw_chimpanzini>> \o Cond1 \o Braced(s)

\* s in the then-block, in the block of a chained if, in the else-block
IfElseText(s) == IfText(s) \o <<kw_bananini>> \o Braced(Step2)

IfElifText(s) == IfText(Step1) \o <<kw_chimpanzini>> \o Cond2 \o Braced(s)

IfElifElseText(s) ==
    IfText(Step2) \o <<kw_chimpanzini>> \o Cond2 \o Braced(Step1) \o <<kw_bananini>> \o Braced(s)

WhileText(s) == <<kw_patapim>> \o Cond1 \o Braced(s)

\* statements nested to depth d
RECURSIVE Nested(_)
Nested(d) ==
    IF d = 0 THEN BaseStatements
    ELSE LET inner == Nested(d - 1)
         IN  BaseStatements
             \cup {IfText(s) : s \in inner} \cup {IfElseText(s) : s \in inner}
             \cup {IfElifText(s) : s \in inner} \cup {IfElifElseText(s) : s \in inner}
             \cup {WhileText(s) : s \in inner}

z_ == <<"z">>

\* x, t0 and tx declared as integers and z as a float
MixedDecls == IntDecls \o Decl(z_, kw_crocodilo)

\* statements that break one rule of the semantic analysis
FaultyStatements ==
    { Assign(x_, <<<<"2",".","5">>>>),
      Assign(z_, <<<<"1">>>>),
      Assign(x_, <<x_, <<"<">>, <<"1">>>>),
      Assign(z_, <<z_, <<"=","=">>, z_>>),
      Assign(y_, <<<<"1">>>>),
      Assign(x_, <<y_, <<"+">>, <<"1">>>>),
      <<kw_drip, LP, y_, RP, Semi>>,
      <<kw_chimpanzini, LP, x_, RP, LB, RB>>,
      <<kw_chimpanzini, LP, y_, <<"<">>, <<"1">>, RP, LB, RB>>,
      <<kw_patapim, LP, x_, <<"+">>, <<"1">>, RP, LB, RB>>,
      <<kw_patapim, LP, <<"-">>, z_, RP, LB, RB>>,
      <<kw_chimpanzini>> \o Cond1 \o <<LB, RB, kw_chimpanzini, LP, x_, RP, LB, RB>>,
      <<kw_chimpanzini>> \o Cond1 \o <<LB, RB, kw_chimpanzini, LP, y_, <<"<">>, <<"1">>, RP, LB, RB>>,
      <<kw_chimpanzini>> \o Cond1 \o <<LB, RB>> \o <<kw_chimpanzini>> \o Cond2
          \o <<LB, RB, kw_chimpanzini, LP, <<"2",".","5">>, RP, LB, RB, kw_bananini, LB, RB>> }

\* s at top level, in a then-block, in the block of a chained if, in an
\* else-block and in a while body
Positions(s) ==
    {s, IfText(s), IfElseText(s), IfElifText(s), IfElifElseText(s), WhileText(s)}

\* a declaration of y
DeclY == <<kw_tongtongsahur, y_, Eq, kw_bombardino, Semi>>

\* a declaration after a statement, and inside the blocks of if and while
LateDeclarations ==
    {Step1 \o DeclY \o Step2, Step1 \o DeclY \o DeclY, WhileText(IfText(DeclY)),
     WhileText(Step1 \o DeclY),
     <<x_, Eq, <<"1", SupTwo>>, Semi>> \o DeclY,
     IfText(Step1 \o DeclY), <<x_, Eq, kw_tongtongsahur, Semi>>}
    \cup (Positions(DeclY) \ {DeclY})

\* a comment up to the end of its line
CommentLine == <<<<"#">>, x_, NL>>

Prefixes == BaseStatements \cup {WhileText(Step1), IfElseText(Step1)}

Sources ==
    {Render(IntDecls \o s) : s \in Nested(MaxNest)}
    \cup {Render(IntDecls \o p \o s) : p \in Prefixes, s \in Nested(MaxNest - 1)}
    \cup {Render(d \o s) : d \in DeclVariants, s \in BaseStatements \cup OtherStatements}
    \cup {Render(d \o s) : d \in {<<>>, Decl(x_, kw_bombardino)}, s \in BrokenStatements}
    \cup {Render(d) : d \in DeclVariants}
    \cup {Render(d \o s) : d \in {<<>>, Decl(x_, kw_bombardino)}, s \in LateDeclarations}
    \cup {Render(CommentLine \o IntDecls \o s \o <<<<"#">>, y_>>) : s \in BaseStatements}
    \cup {Render(MixedDecls \o p) : p \in UNION {Positions(s) : s \in FaultyStatements}}
    \cup {Render(MixedDecls \o q) :
             q \in UNION {Positions(p) : p \in Positions(Assign(x_, <<y_, <<"+">>, <<"1">>>>))}}

----------------------------------------------------------------------------
(* The lexer as a state machine: one action per branch of the loops of     *)
(* Lexer.tokenize / Lexer.get_next_token.                                  *)

LexAlphabet == {"x", "1", ".", " ", "\n", "#", "=", "<", "!"}

RECURSIVE SeqsUpTo(_, _)
SeqsUpTo(S, n) ==
    IF n = 0 THEN {<<>>}
    ELSE LET shorter == SeqsUpTo(S, n - 1)
         IN  shorter \cup {Append(s, c) : s \in {t \in shorter : Len(t) = n - 1}, c \in S}

\* what the lexer does not touch
rest == <<parser_current, ast, symbol_table, generator, lists, intermediate_code, errors,
          returned, interp, output, steps, applied>>

LexBranchIs(b) == pc = "lex" /\ LexBranch(source_code, lexer) = b

LexSkipWhitespace ==
    /\ LexBranchIs("space")
    /\ lexer' = skip_whitespace(source_code, lexer)
    /\ UNCHANGED <<visiting, other, pc, source_code, tokens, exc>>
    /\ UNCHANGED rest

LexSkipComment ==
    /\ LexBranchIs("comment")
    /\ lexer' = skip_comment(source_code, lexer)
    /\ UNCHANGED <<visiting, other, pc, source_code, tokens, exc>>
    /\ UNCHANGED rest

\* a branch of get_next_token that returns a token or raises
LexEmit(b) ==
    /\ LexBranchIs(b)
    /\ LET r == get_next_token(source_code, lexer)
       IN  /\ lexer' = r.lx
           /\ IF r.err # NoError
              THEN /\ exc' = r.err
                   /\ pc' = "except"
                   /\ UNCHANGED tokens
              ELSE /\ tokens' = Append(tokens, r.tok)
                   /\ pc' = IF r.tok.type = "EOF" THEN "parse" ELSE "lex"
                   /\ UNCHANGED exc
    /\ UNCHANGED <<visiting, other, source_code>>
    /\ UNCHANGED rest

LexReadIdentifier == LexEmit("identifier")

LexReadNumber == LexEmit("number")

LexTwoCharOperator == LexEmit("two_char")

LexOneCharOperator == LexEmit("one_char")

LexInvalidCharacter == LexEmit("invalid")

LexEndOfFile == LexEmit("eof")

LexNext ==
    \/ LexSkipWhitespace
    \/ LexSkipComment
    \/ LexReadIdentifier
    \/ LexReadNumber
    \/ LexTwoCharOperator
    \/ LexOneCharOperator
    \/ LexInvalidCharacter
    \/ LexEndOfFile

----------------------------------------------------------------------------
(* Compiler.compile and main (src/compiler/main.py) as a state machine.     *)
(* Python lists are objects: lists[r] is the content of the list object r,  *)
(* and generator.instructions / intermediate_code hold references r.        *)

NoList == 0

Unset == [kind |-> "unset", ref |-> NoList]

ReturnedNone == [kind |-> "None", ref |-> NoList]

ReturnedList(ref) == [kind |-> "list", ref |-> ref]

\* the exception left compile() uncaught
Propagated == [kind |-> "exception", ref |-> NoList]

\* applied records the optimizer passes run so far, each with the content of
\* self.instructions when the pass had finished
Pass(name, instructions) == [pass |-> name, instructions |-> instructions]

Parse ==
    /\ pc = "parse"
    /\ LET r == parse(tokens)
       IN  /\ parser_current' = r.cur
           /\ IF r.err # NoError
              THEN /\ exc' = r.err
                   /\ pc' = "except"
                   /\ UNCHANGED ast
              ELSE /\ ast' = r.node
                   /\ pc' = "analyze"
                   /\ UNCHANGED exc
    /\ UNCHANGED <<visiting, other, source_code, lexer, tokens, symbol_table, generator, lists,
                   intermediate_code, errors, returned, interp, output, steps, applied>>

Analyze ==
    /\ pc = "analyze"
    /\ LET r == analyze(ast)
       IN  /\ symbol_table' = r.symbols
           /\ IF r.err # NoError
              THEN /\ exc' = r.err
                   /\ pc' = "except"
              ELSE /\ pc' = "generate"
                   /\ UNCHANGED exc
    /\ UNCHANGED <<visiting, other,
                   source_code, lexer, tokens, parser_current, ast, generator, lists,
                   intermediate_code, errors, returned, interp, output, steps, applied>>

\* generator = IntermediateCodeGenerator(); intermediate_code = generator.generate(ast)
\* generate returns self.instructions, the list object itself
Generate ==
    /\ pc = "generate"
    /\ LET g == generate(GeneratorInit, ast)
           ref == Len(lists) + 1
       IN  /\ lists' = Append(lists, g.instructions)
           /\ generator' = [g EXCEPT !.instructions = ref]
           /\ IF g.err # NoError
              THEN /\ exc' = g.err
                   /\ pc' = "except"
                   /\ UNCHANGED intermediate_code
              ELSE /\ intermediate_code' = ref
                   /\ pc' = "fold"
                   /\ UNCHANGED exc
    /\ UNCHANGED <<visiting, other,
                   source_code, lexer, tokens, parser_current, ast, symbol_table,
                   errors, returned, interp, output, steps, applied>>

\* self.instructions[i] = ... : the list object is changed in place
ConstantFolding ==
    /\ pc = "fold"
    /\ lists' = [lists EXCEPT ![generator.instructions] = _constant_folding(@)]
    /\ applied' = Append(applied, Pass("fold", _constant_folding(lists[generator.instructions])))
    /\ pc' = "dce"
    /\ UNCHANGED <<visiting, other,
                   source_code, lexer, tokens, exc, parser_current, ast, symbol_table,
                   generator, intermediate_code, errors, returned, interp, output, steps>>

\* self.instructions = [...] : a new list object is bound to the attribute
DeadCodeElimination ==
    /\ pc = "dce"
    /\ lists' = Append(lists, _dead_code_elimination(lists[generator.instructions]))
    /\ generator' = [generator EXCEPT !.instructions = Len(lists) + 1]
    /\ applied' = Append(applied,
                          Pass("dce", _dead_code_elimination(lists[generator.instructions])))
    /\ pc' = "return"
    /\ UNCHANGED <<visiting, other,
                   source_code, lexer, tokens, exc, parser_current, ast, symbol_table,
                   intermediate_code, errors, returned, interp, output, steps>>

\* return intermediate_code
ReturnCode ==
    /\ pc = "return"
    /\ returned' = ReturnedList(intermediate_code)
    /\ pc' = "returned"
    /\ UNCHANGED <<visiting, other,
                   source_code, lexer, tokens, exc, parser_current, ast, symbol_table,
                   generator, lists, intermediate_code, errors, interp, output, steps,
                   applied>>

\* an except clause that reads e.line and e.column and reports the error:
\* reading an attribute the exception does not have raises AttributeError
\* inside the handler, which no clause of this try statement catches
Handle(exception_type, error_type) ==
    /\ pc = "except"
    /\ exc.type = exception_type
    /\ IF "line" \in DOMAIN exc /\ "column" \in DOMAIN exc
       THEN /\ errors' = add_error(errors, source_code, exc.message, exc.line, exc.column,
                                   error_type)
            /\ exc' = NoError
            /\ pc' = "return_none"
            /\ UNCHANGED returned
       ELSE /\ exc' = [type |-> "AttributeError",
                       message |-> [text |-> "object has no attribute 'line'",
                                    args |-> <<exc.type>>]]
            /\ returned' = Propagated
            /\ pc' = "raised"
            /\ UNCHANGED errors
    /\ UNCHANGED <<visiting, other,
                   source_code, lexer, tokens, parser_current, ast, symbol_table, generator,
                   lists, intermediate_code, interp, output, steps, applied>>

HandleLexicalError == Handle("LexicalError", "Lexical")

HandleParseError == Handle("ParseError", "Syntax")

HandleSemanticError == Handle("SemanticError", "Semantic")

\* except Exception as e: reported as a semantic error at line 0, column 0
HandleException ==
    /\ pc = "except"
    /\ exc.type \notin {"LexicalError", "ParseError", "SemanticError"}
    /\ errors' = add_error(errors, source_code,
                           [text |-> "Internal compiler error", args |-> <<exc.message>>],
                           0, 0, "Semantic")
    /\ exc' = NoError
    /\ pc' = "return_none"
    /\ UNCHANGED <<visiting, other,
                   source_code, lexer, tokens, parser_current, ast, symbol_table, generator,
                   lists, intermediate_code, returned, interp, output, steps, applied>>

\* return None
ReturnNone ==
    /\ pc = "return_none"
    /\ returned' = ReturnedNone
    /\ pc' = "returned"
    /\ UNCHANGED <<visiting, other,
                   source_code, lexer, tokens, exc, parser_current, ast, symbol_table,
                   generator, lists, intermediate_code, errors, interp, output, steps,
                   applied>>

\* main after compile(): exit(1) on errors or on an empty or None returned,
\* otherwise Interpreter().execute(intermediate_code), whose first pass
\* collects the labels
MainAfterCompile ==
    /\ pc = "returned"
    /\ IF Len(errors) > 0 \/ returned.kind # "list" \/ lists[returned.ref] = <<>>
       THEN /\ pc' = "exit_1"
            /\ UNCHANGED interp
       ELSE /\ pc' = "execute"
            /\ interp' = [InterpreterInit EXCEPT !.labels = CollectLabels(lists[returned.ref])]
    /\ UNCHANGED <<visiting, other,
                   source_code, lexer, tokens, exc, parser_current, ast, symbol_table,
                   generator, lists, intermediate_code, errors, returned, output, steps,
                   applied>>

\* one round of the loop of Interpreter.execute
ExecuteInstruction ==
    /\ pc = "execute"
    /\ interp.current_instruction < Len(lists[returned.ref])
    /\ steps < MaxSteps
    /\ LET r == ExecuteOne(interp, lists[returned.ref])
       IN  /\ interp' = r.it
           /\ output' = output \o r.out
           /\ IF r.it.err # NoError
              THEN /\ exc' = r.it.err
                   /\ pc' = "raised"
              ELSE UNCHANGED <<exc, pc>>
    /\ steps' = steps + 1
    /\ UNCHANGED <<visiting, other,
                   source_code, lexer, tokens, parser_current, ast, symbol_table, generator,
                   lists, intermediate_code, errors, returned, applied>>

\* the loop of execute ends
ExecuteReturns ==
    /\ pc = "execute"
    /\ interp.current_instruction >= Len(lists[returned.ref])
    /\ pc' = "exit_0"
    /\ UNCHANGED <<visiting, other,
                   source_code, lexer, tokens, exc, parser_current, ast, symbol_table,
                   generator, lists, intermediate_code, errors, returned, interp, output,
                   steps, applied>>

Next ==
    \/ LexNext
    \/ Parse
    \/ Analyze
    \/ Generate
    \/ ConstantFolding
    \/ DeadCodeElimination
    \/ ReturnCode
    \/ HandleLexicalError
    \/ HandleParseError
    \/ HandleSemanticError
    \/ HandleException
    \/ ReturnNone
    \/ MainAfterCompile
    \/ ExecuteInstruction
    \/ ExecuteReturns

\* no second compilation
NoFrame == [pc |-> "none"]

\* the state of everything but the source text and the lexer at the start
Fresh ==
    /\ tokens = <<>>
    /\ exc = NoError
    /\ parser_current = 0
    /\ ast = NoNode
    /\ symbol_table = EmptyDict
    /\ generator = [GeneratorInit EXCEPT !.instructions = NoList]
    /\ lists = <<>>
    /\ intermediate_code = NoList
    /\ errors = <<>>
    /\ returned = Unset
    /\ interp = InterpreterInit
    /\ output = <<>>
    /\ steps = 0
    /\ applied = <<>>
    /\ visiting = 0
    /\ other = NoFrame

Init ==
    /\ source_code \in Sources
    /\ lexer = LexerInit(source_code)
    /\ pc = "lex"
    /\ Fresh

Spec == Init /\ [][Next]_vars

----------------------------------------------------------------------------
(* The lexer alone, on every text over a small alphabet *)

LexInit(n) ==
    /\ source_code \in SeqsUpTo(LexAlphabet, n)
    /\ lexer = LexerInit(source_code)
    /\ pc = "lex"
    /\ Fresh

\* get_next_token is called again as soon as tokenize has appended a token,
\* so every enabled lexer step is eventually taken
LexFairSpec == LexInit(MaxFairLen) /\ [][LexNext]_vars /\ WF_vars(LexNext)

LexSpec == LexInit(MaxSrcLen) /\ [][LexNext]_vars

----------------------------------------------------------------------------
(* The optimizer passes alone, on every short TAC sequence over a small     *)
(* set of instructions, run in any order.                                   *)

MaxTacLen == 2
MaxPasses == 2

L0_ == <<"L","0">>

TacInstructions ==
    { BinaryOperation(t0_, l, o, r) :
        l \in {<<"1">>, <<"2",".","5">>, x_}, o \in {<<"+">>, <<"/">>, <<"<">>},
        r \in {<<"0">>, <<"2">>} }
    \cup { BinaryOperation(x_, <<"1">>, <<"-">>, <<"3">>),
           BinaryOperation(tx_, <<"2">>, <<"*">>, <<"0",".","5">>),
           Assignment(x_, t0_),
           Assignment(t0_, <<"1">>),
           UnaryOperation(t0_, <<"-">>, x_),
           PrintInstruction(t0_),
           Label(L0_),
           Jump(L0_),
           ConditionalJump(NotCondition(t0_), L0_) }

\* lists[1] is the list held by the generator, lists[2] a copy of its
\* content before any pass
OptInit ==
    /\ source_code = <<>>
    /\ lexer = LexerInit(<<>>)
    /\ pc = "optimize"
    /\ tokens = <<>>
    /\ exc = NoError
    /\ parser_current = 0
    /\ ast = NoNode
    /\ symbol_table = EmptyDict
    /\ \E instructions \in SeqsUpTo(TacInstructions, MaxTacLen) :
          lists = <<instructions, instructions>>
    /\ generator = [GeneratorInit EXCEPT !.instructions = 1]
    /\ intermediate_code = 1
    /\ errors = <<>>
    /\ returned = Unset
    /\ interp = InterpreterInit
    /\ output = <<>>
    /\ steps = 0
    /\ applied = <<>>
    /\ visiting = 0
    /\ other = NoFrame

OptConstantFolding ==
    /\ pc = "optimize"
    /\ Len(applied) < MaxPasses
    /\ lists' = [lists EXCEPT ![generator.instructions] = _constant_folding(@)]
    /\ applied' = Append(applied, Pass("fold", _constant_folding(lists[generator.instructions])))
    /\ UNCHANGED <<visiting, other,
                   pc, source_code, lexer, tokens, exc, parser_current, ast, symbol_table,
                   generator, intermediate_code, errors, returned, interp, output, steps>>

OptDeadCodeElimination ==
    /\ pc = "optimize"
    /\ Len(applied) < MaxPasses
    /\ lists' = Append(lists, _dead_code_elimination(lists[generator.instructions]))
    /\ generator' = [generator EXCEPT !.instructions = Len(lists) + 1]
    /\ applied' = Append(applied,
                          Pass("dce", _dead_code_elimination(lists[generator.instructions])))
    /\ UNCHANGED <<visiting, other,
                   pc, source_code, lexer, tokens, exc, parser_current, ast, symbol_table,
                   intermediate_code, errors, returned, interp, output, steps>>

OptNext == OptConstantFolding \/ OptDeadCodeElimination

OptSpec == OptInit /\ [][OptNext]_vars

----------------------------------------------------------------------------
(* Two compilations in one process.  Each has its own Compiler, Lexer,      *)
(* Parser, SemanticAnalyzer and IntermediateCodeGenerator; the list objects *)
(* of both are in the same heap.  The variables are those of the            *)
(* compilation that runs, `other` holds those of the one that waits, and    *)
(* the loop of generate is followed one statement at a time.                *)

\* Lexer.tokenize: get_next_token until it returns EOF or raises
RECURSIVE tokenize(_, _, _)
tokenize(src, lx, toks) ==
    LET r == get_next_token(src, lx)
    IN  IF r.err # NoError THEN [tokens |-> toks, err |-> r.err]
        ELSE IF r.tok.type = "EOF" THEN [tokens |-> Append(toks, r.tok), err |-> NoError]
        ELSE tokenize(src, r.lx, Append(toks, r.tok))

\* what a call of compile() leaves: the value returned (with the content of
\* the list, if it is one), the errors recorded and the exception raised
Result(kind, instructions, error_list, e) ==
    [returned |-> kind, instructions |-> instructions, errors |-> error_list, exc |-> e]

\* the except clauses of compile
compile_except(src, e) ==
    IF e.type \in {"LexicalError", "ParseError", "SemanticError"}
    THEN IF "line" \in DOMAIN e /\ "column" \in DOMAIN e
         THEN Result("None", <<>>,
                     add_error(<<>>, src, e.message, e.line, e.column,
                               CASE e.type = "LexicalError" -> "Lexical"
                                 [] e.type = "ParseError"   -> "Syntax"
                                 [] OTHER                   -> "Semantic"),
                     NoError)
         ELSE Result("exception", <<>>, <<>>,
                     [type |-> "AttributeError",
                      message |-> [text |-> "object has no attribute 'line'",
                                   args |-> <<e.type>>]])
    ELSE Result("None", <<>>,
                add_error(<<>>, src,
                          [text |-> "Internal compiler error", args |-> <<e.message>>],
                          0, 0, "Semantic"),
                NoError)

\* Compiler(src).compile() with nothing else running; generate returns the
\* list that constant folding then changes in place
compile(src) ==
    LET lexed == tokenize(src, LexerInit(src), <<>>)
    IN  IF lexed.err # NoError THEN compile_except(src, lexed.err)
        ELSE LET parsed == parse(lexed.tokens)
             IN  IF parsed.err # NoError THEN compile_except(src, parsed.err)
                 ELSE LET analyzed == analyze(parsed.node)
                      IN  IF analyzed.err # NoError THEN compile_except(src, analyzed.err)
                          ELSE LET g == generate(GeneratorInit, parsed.node)
                               IN  IF g.err # NoError THEN compile_except(src, g.err)
                                   ELSE Result("list", _constant_folding(g.instructions),
                                               <<>>, NoError)

PairSources ==
    { Render(CommentLine \o Decl(x_, kw_bombardino) \o Assign(x_, <<x_, <<"+">>, <<"1">>>>)
             \o <<kw_chimpanzini, LP, x_, <<"=","=">>, <<"1">>, RP, LB>>
             \o Assign(x_, <<x_, <<"*">>, <<"2">>>>) \o <<RB>>
             \o Assign(x_, <<x_, <<"-">>, <<"1">>>>)),
      Render(Decl(x_, kw_bombardino)
             \o <<kw_patapim, LP, x_, <<"<">>, <<"2">>, RP, LB>>
             \o Assign(x_, <<x_, <<"+">>, <<"1">>>>) \o <<RB>>
             \o <<kw_drip, LP, x_, <<"+">>, x_, RP, Semi>>),
      Render(Decl(x_, kw_bombardino) \o <<x_, Eq, <<"1">>, <<"@">>, Semi>>),
      Render(Decl(x_, kw_bombardino) \o <<x_, Eq, LP, <<"1">>, Semi>>),
      Render(Decl(x_, kw_bombardino) \o Assign(y_, <<<<"1">>>>)),
      Render(Decl(x_, kw_bombardino) \o Assign(x_, <<<<"1", SupTwo>>>>)) }

\* the variables of one compilation
Frame ==
    [pc |-> pc, source_code |-> source_code, lexer |-> lexer, tokens |-> tokens,
     exc |-> exc, parser_current |-> parser_current, ast |-> ast,
     symbol_table |-> symbol_table, generator |-> generator,
     intermediate_code |-> intermediate_code, errors |-> errors, returned |-> returned,
     applied |-> applied, visiting |-> visiting]

\* Compiler(src) before compile() is called
NewFrame(src) ==
    [pc |-> "lex", source_code |-> src, lexer |-> LexerInit(src), tokens |-> <<>>,
     exc |-> NoError, parser_current |-> 0, ast |-> NoNode,
     symbol_table |-> EmptyDict,
     generator |-> [GeneratorInit EXCEPT !.instructions = NoList],
     intermediate_code |-> NoList, errors |-> <<>>, returned |-> Unset,
     applied |-> <<>>, visiting |-> 0]

PairInit ==
    /\ source_code \in PairSources
    /\ lexer = LexerInit(source_code)
    /\ pc = "lex"
    /\ tokens = <<>>
    /\ exc = NoError
    /\ parser_current = 0
    /\ ast = NoNode
    /\ symbol_table = EmptyDict
    /\ generator = [GeneratorInit EXCEPT !.instructions = NoList]
    /\ lists = <<>>
    /\ intermediate_code = NoList
    /\ errors = <<>>
    /\ returned = Unset
    /\ interp = InterpreterInit
    /\ output = <<>>
    /\ steps = 0
    /\ applied = <<>>
    /\ visiting = 0
    /\ \E src \in PairSources : other = NewFrame(src)

\* a switch between threads whose generators count in the same two counters
Switch_shared_counters ==
    /\ other # NoFrame
    /\ other' = Frame
    /\ pc' = other.pc
    /\ source_code' = other.source_code
    /\ lexer' = other.lexer
    /\ tokens' = other.tokens
    /\ exc' = other.exc
    /\ parser_current' = other.parser_current
    /\ ast' = other.ast
    /\ symbol_table' = other.symbol_table
    /\ generator' = [other.generator EXCEPT !.temp_counter = generator.temp_counter,
                                            !.label_counter = generator.label_counter]
    /\ intermediate_code' = other.intermediate_code
    /\ errors' = other.errors
    /\ returned' = other.returned
    /\ applied' = other.applied
    /\ visiting' = other.visiting
    /\ UNCHANGED <<lists, interp, output, steps>>

\* the interpreter switches to the other thread
Switch ==
    /\ other # NoFrame
    /\ other' = Frame
    /\ pc' = other.pc
    /\ source_code' = other.source_code
    /\ lexer' = other.lexer
    /\ tokens' = other.tokens
    /\ exc' = other.exc
    /\ parser_current' = other.parser_current
    /\ ast' = other.ast
    /\ symbol_table' = other.symbol_table
    /\ generator' = other.generator
    /\ intermediate_code' = other.intermediate_code
    /\ errors' = other.errors
    /\ returned' = other.returned
    /\ applied' = other.applied
    /\ visiting' = other.visiting
    /\ UNCHANGED <<lists, interp, output, steps>>

\* generator = IntermediateCodeGenerator() and the loop of generate over the
\* declarations
GenerateBegin ==
    /\ pc = "generate"
    /\ lists' = Append(lists, <<>>)
    /\ generator' = [Gen_visit_declarations(GeneratorInit, ast.declarations)
                        EXCEPT !.instructions = Len(lists) + 1]
    /\ visiting' = 0
    /\ pc' = "visit"
    /\ UNCHANGED <<other, source_code, lexer, tokens, exc, parser_current, ast,
                   symbol_table, intermediate_code, errors, returned, interp, output,
                   steps, applied>>

\* one round of the loop of generate over the statements
VisitStatement ==
    /\ pc = "visit"
    /\ visiting < Len(ast.statements)
    /\ LET g == Gen_visit_statement(
                    [generator EXCEPT !.instructions = lists[generator.instructions]],
                    ast.statements[visiting + 1])
       IN  /\ lists' = [lists EXCEPT ![generator.instructions] = g.instructions]
           /\ generator' = [g EXCEPT !.instructions = generator.instructions]
           /\ IF g.err # NoError
              THEN /\ exc' = g.err
                   /\ pc' = "except"
              ELSE UNCHANGED <<exc, pc>>
    /\ visiting' = visiting + 1
    /\ UNCHANGED <<other, source_code, lexer, tokens, parser_current, ast, symbol_table,
                   intermediate_code, errors, returned, interp, output, steps, applied>>

\* return self.instructions, bound to intermediate_code
GenerateReturns ==
    /\ pc = "visit"
    /\ visiting = Len(ast.statements)
    /\ intermediate_code' = generator.instructions
    /\ pc' = "fold"
    /\ UNCHANGED <<visiting, other, source_code, lexer, tokens, exc, parser_current, ast,
                   symbol_table, generator, lists, errors, returned, interp, output,
                   steps, applied>>

PairNext ==
    \/ LexNext
    \/ Parse
    \/ Analyze
    \/ GenerateBegin
    \/ VisitStatement
    \/ GenerateReturns
    \/ ConstantFolding
    \/ DeadCodeElimination
    \/ ReturnCode
    \/ HandleLexicalError
    \/ HandleParseError
    \/ HandleSemanticError
    \/ HandleException
    \/ ReturnNone
    \/ Switch

PairSpec == PairInit /\ [][PairNext]_vars

----------------------------------------------------------------------------
(* Claims *)

\* C1: when compile succeeds, the list it returns is the generated sequence
\* after constant folding and then dead-code elimination, i.e. it equals the
\* generator's own instruction list after optimize() has finished.
C1_ReturnedIsOptimizedSequence ==
    (pc = "returned" /\ returned.kind = "list") =>
        /\ Len(applied) = 2
        /\ applied[1].pass = "fold"
        /\ applied[2].pass = "dce"
        /\ lists[returned.ref] = applied[2].instructions
        /\ lists[returned.ref] = lists[generator.instructions]

IsJump(inst) == inst.kind \in {"Jump", "ConditionalJump"}

LabelNames(instructions) ==
    { instructions[i].name : i \in {j \in 1..Len(instructions) : instructions[j].kind = "Label"} }

LabelPositions(instructions, name) ==
    { i \in 1..Len(instructions) : instructions[i].kind = "Label" /\ instructions[i].name = name }

CountKind(instructions, kind) ==
    Cardinality({i \in 1..Len(instructions) : instructions[i].kind = kind})

\* generate has just returned without an exception
Generated == pc = "fold"

\* C3: in every sequence produced by generate, the target of every Jump and
\* every ConditionalJump is the name of a Label of the same sequence.
C3_JumpTargetsAreLabels ==
    Generated =>
        \A i \in 1..Len(lists[intermediate_code]) :
            IsJump(lists[intermediate_code][i]) =>
                lists[intermediate_code][i].target \in LabelNames(lists[intermediate_code])

\* an if with a chained if and an else, nested in other statements: at least
\* three if/while statements with their jumps
C3_Witness ==
    /\ Generated
    /\ CountKind(lists[intermediate_code], "Label") >= 6
    /\ CountKind(lists[intermediate_code], "Jump") >= 4
    /\ CountKind(lists[intermediate_code], "ConditionalJump") >= 4

\* C4: in every sequence produced by one call of generate on a fresh
\* generator, no two Label instructions carry the same name.
C4_LabelNamesUnique ==
    Generated =>
        \A name \in LabelNames(lists[intermediate_code]) :
            Cardinality(LabelPositions(lists[intermediate_code], name)) = 1

C4_Witness ==
    /\ Generated
    /\ Cardinality(LabelNames(lists[intermediate_code])) >= 6
    /\ generator.label_counter >= 6

----------------------------------------------------------------------------
(* Reference semantics of a source program, on its syntax tree: exact       *)
(* arithmetic, comparisons yielding 1 or 0, every declared variable 0 until *)
(* it is assigned.  A division by zero, or a loop that runs for more than   *)
(* MaxSteps rounds, has no reference value (ok is FALSE).                   *)

RefValue(value) == [ok |-> TRUE, value |-> value]

RefUndefined == [ok |-> FALSE, value |-> IntNum(0)]

RefApply(left, operator_type, right) ==
    CASE operator_type = "PLUS"     -> RefValue(NumAdd(left, right))
      [] operator_type = "MINUS"    -> RefValue(NumSub(left, right))
      [] operator_type = "MULTIPLY" -> RefValue(NumMul(left, right))
      [] operator_type = "DIVIDE"   ->
            IF IsZero(right) THEN RefUndefined ELSE RefValue(NumDiv(left, right))
      [] operator_type = "LESS_THAN"    -> RefValue(BoolFloat(NumLt(left, right)))
      [] operator_type = "GREATER_THAN" -> RefValue(BoolFloat(NumLt(right, left)))
      [] operator_type = "EQUALS"       -> RefValue(BoolFloat(NumEq(left, right)))
      [] operator_type = "NOT_EQUALS"   -> RefValue(BoolFloat(~NumEq(left, right)))
      [] OTHER -> RefUndefined

RECURSIVE RefExpression(_, _)
RefExpression(env, node) ==
    CASE node.kind = "Literal" -> RefValue(node.value)
      [] node.kind = "Identifier" ->
            IF node.name \in DOMAIN env THEN RefValue(env[node.name]) ELSE RefUndefined
      [] node.kind = "UnaryOp" ->
            LET operand == RefExpression(env, node.operand)
            IN  IF ~operand.ok THEN RefUndefined
                ELSE IF node.operator.type = "MINUS" THEN RefValue(NumNeg(operand.value))
                     ELSE operand
      [] node.kind = "BinaryOp" ->
            LET left  == RefExpression(env, node.left)
                right == RefExpression(env, node.right)
            IN  IF left.ok /\ right.ok
                THEN RefApply(left.value, node.operator.type, right.value)
                ELSE RefUndefined
      [] OTHER -> RefUndefined

RefState(ok, env, fuel) == [ok |-> ok, env |-> env, fuel |-> fuel]

RECURSIVE RefBlock(_, _)
RECURSIVE RefWhile(_, _)
RECURSIVE RefElif(_, _, _)

RefStatement(st, node) ==
    CASE node.kind = "AssignmentStmt" ->
            LET v == RefExpression(st.env, node.expression)
            IN  IF v.ok /\ node.variable \in DOMAIN st.env
                THEN [st EXCEPT !.env[node.variable] = v.value]
                ELSE [st EXCEPT !.ok = FALSE]
      [] node.kind = "PrintStmt" ->
            [st EXCEPT !.ok = RefExpression(st.env, node.expression).ok]
      [] node.kind = "WhileStmt" -> RefWhile(st, node)
      [] node.kind = "IfStmt" ->
            LET c == RefExpression(st.env, node.condition)
            IN  IF ~c.ok THEN [st EXCEPT !.ok = FALSE]
                ELSE IF ~IsZero(c.value) THEN RefBlock(st, node.then_block)
                     ELSE RefElif(st, node.elif_blocks, node.else_block)
      [] OTHER -> [st EXCEPT !.ok = FALSE]

RefBlock(st, block) ==
    IF ~st.ok \/ block = <<>> THEN st
    ELSE RefBlock(RefStatement(st, Head(block)), Tail(block))

RefWhile(st, node) ==
    LET c == RefExpression(st.env, node.condition)
    IN  IF ~st.ok \/ ~c.ok \/ st.fuel = 0 THEN [st EXCEPT !.ok = FALSE]
        ELSE IF IsZero(c.value) THEN st
             ELSE RefWhile(RefBlock([st EXCEPT !.fuel = @ - 1], node.body), node)

RefElif(st, elif_blocks, else_block) ==
    IF elif_blocks = <<>>
    THEN IF else_block.is_none THEN st ELSE RefBlock(st, else_block.statements)
    ELSE LET c == RefExpression(st.env, Head(elif_blocks).condition)
         IN  IF ~c.ok THEN [st EXCEPT !.ok = FALSE]
             ELSE IF ~IsZero(c.value) THEN RefBlock(st, Head(elif_blocks).statements)
                  ELSE RefElif(st, Tail(elif_blocks), else_block)

DeclaredNames(program) ==
    { program.declarations[i].name : i \in 1..Len(program.declarations) }

RefProgram(program) ==
    RefBlock(RefState(TRUE, [n \in DeclaredNames(program) |-> IntNum(0)], MaxSteps),
             program.statements)

\* C2: for a program that passes semantic analysis, executing the returned
\* TAC in the Interpreter leaves every declared variable with the value that
\* the reference semantics gives it, whatever the names of the variables.
C2_InterpreterMatchesReference ==
    (pc = "exit_0" /\ RefProgram(ast).ok) =>
        \A name \in DeclaredNames(ast) :
            NumEq(_get_value(interp, name), RefProgram(ast).env[name])

----------------------------------------------------------------------------
(* Well-typed programs, by the typing rules of the language *)

IllTyped == <<>>

PrimitiveTypes == {kw_bombardino, kw_crocodilo}

DeclarationsOf(program, name) ==
    { i \in 1..Len(program.declarations) : program.declarations[i].name = name }

DeclaredOnce(program, name) == Cardinality(DeclarationsOf(program, name)) = 1

\* the primitive type that the type keyword of the declaration stands for
DeclaredType(program, name) ==
    lower(program.declarations[CHOOSE i \in DeclarationsOf(program, name) : TRUE].type)

RECURSIVE TypeOf(_, _)
TypeOf(program, node) ==
    CASE node.kind = "Literal" ->
            IF node.value.is_float THEN kw_crocodilo ELSE kw_bombardino
      [] node.kind = "Identifier" ->
            IF DeclaredOnce(program, node.name) THEN DeclaredType(program, node.name)
            ELSE IllTyped
      [] node.kind = "UnaryOp" ->
            LET operand == TypeOf(program, node.operand)
            IN  IF node.operator.type \in {"PLUS", "MINUS"} /\ operand \in PrimitiveTypes
                THEN operand ELSE IllTyped
      [] node.kind = "BinaryOp" ->
            LET left  == TypeOf(program, node.left)
                right == TypeOf(program, node.right)
            IN  IF left = IllTyped \/ left # right THEN IllTyped
                ELSE IF node.operator.type \in ArithmeticTypes THEN left
                     ELSE IF node.operator.type \in AllComparisonTypes THEN type_boolean
                          ELSE IllTyped
      [] OTHER -> IllTyped

RECURSIVE WellTypedBlock(_, _)
WellTypedStatement(program, node) ==
    CASE node.kind = "AssignmentStmt" ->
            /\ DeclaredOnce(program, node.variable)
            /\ TypeOf(program, node.expression) = DeclaredType(program, node.variable)
      [] node.kind = "PrintStmt" -> TypeOf(program, node.expression) # IllTyped
      [] node.kind = "WhileStmt" ->
            /\ TypeOf(program, node.condition) = type_boolean
            /\ WellTypedBlock(program, node.body)
      [] node.kind = "IfStmt" ->
            /\ TypeOf(program, node.condition) = type_boolean
            /\ WellTypedBlock(program, node.then_block)
            /\ \A i \in 1..Len(node.elif_blocks) :
                  /\ TypeOf(program, node.elif_blocks[i].condition) = type_boolean
                  /\ WellTypedBlock(program, node.elif_blocks[i].statements)
            /\ node.else_block.is_none \/ WellTypedBlock(program, node.else_block.statements)
      [] OTHER -> FALSE

WellTypedBlock(program, block) ==
    \A i \in 1..Len(block) : WellTypedStatement(program, block[i])

WellTyped(program) ==
    /\ \A i \in 1..Len(program.declarations) :
          /\ DeclaredOnce(program, program.declarations[i].name)
          /\ lower(program.declarations[i].type) \in PrimitiveTypes
    /\ WellTypedBlock(program, program.statements)

\* C7: for a parsed program that is well-typed, analyze raises no error,
\* whatever the spelling of the type keywords.
C7_WellTypedProgramsPass ==
    (pc \in {"generate", "except"} /\ ast # NoNode /\ WellTyped(ast)) =>
        analyze(ast).err = NoError

StageErrors == {"LexicalError", "ParseError", "SemanticError"}

CategoryOf(exception_type) ==
    CASE exception_type = "LexicalError" -> "Lexical"
      [] exception_type = "ParseError" -> "Syntax"
      [] exception_type = "SemanticError" -> "Semantic"

\* the step of compile that follows the failure of a stage
C5_Step ==
    (pc = "except" /\ exc.type \in StageErrors) =>
        /\ pc' = "return_none"
        /\ returned' # Propagated
        /\ Len(errors') = 1
        /\ errors'[1].error_type = CategoryOf(exc.type)
        /\ errors'[1].message = exc.message
        /\ "line" \in DOMAIN exc /\ errors'[1].line = exc.line
        /\ "column" \in DOMAIN exc /\ errors'[1].column = exc.column

\* C5: for any source that fails in the lexical, the syntax or the semantic
\* stage, compile returns None with exactly one error recorded, of the
\* category of the failing stage and with the message, line and column of
\* the failure; no exception escapes compile.
C5_StageFailureIsRecorded ==
    /\ [][C5_Step]_vars
    /\ [](pc = "return_none" => Len(errors) = 1)
    /\ []((pc = "returned" /\ Len(errors) > 0) => returned = ReturnedNone)

InCompile ==
    pc \in {"lex", "parse", "analyze", "generate", "fold", "dce", "return", "except",
            "return_none"}

\* an exception that is not a lexical, syntax or semantic error
Internal(e) == e.type \notin StageErrors \cup {"None"}

\* a step of compile in which an internal failure arises is followed by the
\* except clauses, and the catch-all clause records it at (0, 0)
C6_Step ==
    /\ (InCompile /\ exc' # exc /\ Internal(exc')) => pc' = "except"
    /\ (pc = "except" /\ Internal(exc)) =>
            /\ pc' = "return_none"
            /\ Len(errors') = 1
            /\ errors'[1].error_type = "Semantic"
            /\ errors'[1].line = 0
            /\ errors'[1].column = 0

\* C6: every failure arising during compile that is not a lexical, syntax or
\* semantic error is caught inside compile and recorded as exactly one
\* Semantic error at line 0, column 0, after which compile returns None.
C6_InternalFailureIsRecorded ==
    /\ [][C6_Step]_vars
    /\ [](returned # Propagated)

IsDigits(s) == s # <<>> /\ AllAsciiDigits(s)

\* a name that new_temp has returned during this generation
IsGeneratedTemp(name) ==
    /\ Len(name) >= 2
    /\ name[1] = "t"
    /\ IsDigits(Tail(name))
    /\ \E n \in 0..(generator.temp_counter - 1) : name = <<"t">> \o IntStr(n)

\* an Assign, BinaryOp or UnaryOp whose target is a declared variable and
\* not a generated temporary
TargetsUserVariable(inst) ==
    /\ inst.kind \in {"Assignment", "BinaryOperation", "UnaryOperation"}
    /\ inst.target \in DOMAIN generator.variables
    /\ ~IsGeneratedTemp(inst.target)

\* C8: dead-code elimination never removes an Assign, BinaryOp or UnaryOp
\* whose target is a user-declared variable rather than a name returned by
\* new_temp, for every name the lexer accepts as an identifier.
C8_UserTargetsSurviveElimination ==
    (Len(applied) = 2 /\ applied[2].pass = "dce") =>
        SelectSeq(applied[2].instructions, TargetsUserVariable)
            = SelectSeq(applied[1].instructions, TargetsUserVariable)

\* C9: constant folding is idempotent: a second _constant_folding leaves
\* the sequence that the first one produced.
C9_FoldingIdempotent ==
    \A i \in 1..(Len(applied) - 1) :
        (applied[i].pass = "fold" /\ applied[i + 1].pass = "fold") =>
            applied[i + 1].instructions = applied[i].instructions

\* two foldings in a row, the first of which changed the sequence
C9_Witness ==
    /\ Len(applied) = 2
    /\ applied[1].pass = "fold"
    /\ applied[2].pass = "fold"
    /\ applied[1].instructions # lists[2]
    /\ \E i \in 1..Len(lists[2]) :
          lists[2][i].kind = "BinaryOperation" /\ applied[1].instructions[i] = lists[2][i]

EofCount(toks) == Cardinality({i \in 1..Len(toks) : toks[i].type = "EOF"})

\* C10: for any source text, Lexer.tokenize terminates: it either raises a
\* LexicalError or returns a token sequence that contains exactly one EOF
\* token, and that token is the last element.
C10_TokenizeTerminatesWithOneEof ==
    /\ <>(pc \in {"except", "parse"})
    /\ [](pc = "except" => exc.type = "LexicalError")
    /\ [](pc = "parse" =>
            /\ Len(tokens) >= 1
            /\ tokens[Len(tokens)].type = "EOF"
            /\ EofCount(tokens) = 1)

C10_Witness ==
    /\ pc = "parse"
    /\ Len(tokens) >= 3
    /\ \E i \in 1..Len(source_code) : source_code[i] = "#"

----------------------------------------------------------------------------
(* The significant text of a source: what is left when whitespace and line  *)
(* comments ('#' up to the end of the line) are removed.                    *)

RECURSIVE Significant(_, _)
Significant(text, in_comment) ==
    IF text = <<>> THEN <<>>
    ELSE IF in_comment THEN Significant(Tail(text), Head(text) # "\n")
         ELSE IF Head(text) = "#" THEN Significant(Tail(text), TRUE)
              ELSE IF isspace(Head(text)) THEN Significant(Tail(text), FALSE)
                   ELSE <<Head(text)>> \o Significant(Tail(text), FALSE)

\* the values of the tokens, concatenated in order
RECURSIVE Lexemes(_)
Lexemes(toks) == IF toks = <<>> THEN <<>> ELSE Head(toks).value \o Lexemes(Tail(toks))

\* C11: for any source text that tokenizes without error, the lexemes of the
\* returned tokens, concatenated in order, are the source text with all
\* whitespace and all line comments removed.
C11_LexemesAreSignificantText ==
    pc = "parse" => Lexemes(tokens) = Significant(source_code, FALSE)

\* a text with a comment and whitespace, tokenized into two tokens and EOF
C11_Witness ==
    /\ pc = "parse"
    /\ Len(tokens) >= 3
    /\ \E i \in 1..Len(source_code) : source_code[i] = "#"
    /\ \E i \in 1..Len(source_code) : isspace(source_code[i])
    /\ Lexemes(tokens) # <<>>

----------------------------------------------------------------------------
(* The lowering of an if statement, branch by branch: each branch is        *)
(*   code(c), CondJump(not r, E), code(B), Jump(End), Label(E)              *)
(* with E a fresh label, followed by code(else-block) and Label(End).       *)

\* CondJump(not r, E), code(B), Jump(End), Label(E)
LoweredBranch(g, r, else_label, block, end_label) ==
    Bind(Gen_visit_block(Emit(g, ConditionalJump(NotCondition(r), else_label)), block),
         LAMBDA b :
        Emit(Emit(b, Jump(end_label)), Label(else_label)))

RECURSIVE LoweredElifs(_, _, _)
LoweredElifs(g, elif_blocks, end_label) ==
    IF elif_blocks = <<>> THEN g
    ELSE Bind(Gen_visit_expression(g, Head(elif_blocks).condition), LAMBDA c :
         Bind(new_label(c.g), LAMBDA e :
             LoweredElifs(LoweredBranch(e.g, c.result, e.name,
                                        Head(elif_blocks).statements, end_label),
                          Tail(elif_blocks), end_label)))

LoweredIf(g, node) ==
    Bind(Gen_visit_expression(g, node.condition), LAMBDA c0 :
    Bind(new_label(c0.g), LAMBDA e0 :
    Bind(new_label(e0.g), LAMBDA end :
    Bind(LoweredBranch(end.g, c0.result, e0.name, node.then_block, end.name), LAMBDA b0 :
    Bind(LoweredElifs(b0, node.elif_blocks, end.name), LAMBDA chain :
    Bind(IF node.else_block.is_none THEN chain
         ELSE Gen_visit_block(chain, node.else_block.statements), LAMBDA e :
        Emit(e, Label(end.name))))))))

\* the if statements of a block, at any depth
RECURSIVE IfNodes(_)
IfNodes(block) ==
    UNION { CASE block[i].kind = "IfStmt" ->
                  {block[i]} \cup IfNodes(block[i].then_block)
                  \cup UNION {IfNodes(block[i].elif_blocks[j].statements) :
                                 j \in 1..Len(block[i].elif_blocks)}
                  \cup IfNodes(block[i].else_block.statements)
              [] block[i].kind = "WhileStmt" -> IfNodes(block[i].body)
              [] OTHER -> {}
            : i \in 1..Len(block) }

\* the generator when generate reaches the k-th top-level statement
GeneratorBefore(program, k) ==
    generate(GeneratorInit, Program(program.declarations, SubSeq(program.statements, 1, k - 1)))

\* the instructions that generate emitted for the k-th top-level statement
Emitted(program, instructions, k) ==
    SubSeq(instructions, Len(GeneratorBefore(program, k).instructions) + 1,
           Len(GeneratorBefore(program, k + 1).instructions))

MaxCounter == 3     \* largest value of temp_counter / label_counter a nested if is visited with

\* C12: an if statement with n >= 0 chained ifs and an optional else-block is
\* lowered to exactly code(c0), CondJump(not r0, E0), code(B0), Jump(End),
\* Label(E0), then for each chained if code(ci), CondJump(not ri, Ei),
\* code(Bi), Jump(End), Label(Ei), then code(E) if present, then Label(End)
\* once at the very end.
C12_IfLowering ==
    Generated =>
        /\ \A k \in 1..Len(ast.statements) :
              ast.statements[k].kind = "IfStmt" =>
                  LET emitted == Emitted(ast, lists[intermediate_code], k)
                      lowered == LoweredIf([GeneratorBefore(ast, k) EXCEPT !.instructions = <<>>],
                                           ast.statements[k]).instructions
                  IN  /\ emitted = lowered
                      /\ emitted[Len(emitted)].kind = "Label"
                      /\ Cardinality(LabelPositions(lists[intermediate_code],
                                                    emitted[Len(emitted)].name)) = 1
        /\ \A node \in IfNodes(ast.statements) :
              \A t \in 0..MaxCounter, l \in 0..MaxCounter :
                  LET g == [GeneratorInit EXCEPT !.temp_counter = t, !.label_counter = l]
                  IN  Gen_visit_if_statement(g, node).instructions
                          = LoweredIf(g, node).instructions

\* an if with a chained if and an else-block, with another if inside
C12_Witness ==
    /\ Generated
    /\ \E k \in 1..Len(ast.statements) :
          /\ ast.statements[k].kind = "IfStmt"
          /\ Len(ast.statements[k].elif_blocks) >= 1
          /\ ~ast.statements[k].else_block.is_none
          /\ Cardinality(IfNodes(<<ast.statements[k]>>)) >= 2
          /\ Len(Emitted(ast, lists[intermediate_code], k)) >= 12

----------------------------------------------------------------------------
(* The operators <= and >= inside a condition *)

\* the token at position i lies between the '(' that follows the keyword of
\* an if or a while and the ')' that closes it
InCondition(toks, i) ==
    \E j \in 1..(i - 2) :
        /\ toks[j].type \in {"IF", "WHILE"}
        /\ toks[j + 1].type = "LPAREN"
        /\ \A k \in (j + 1)..(i - 1) :
              Cardinality({n \in (j + 1)..k : toks[n].type = "LPAREN"})
                  > Cardinality({n \in (j + 1)..k : toks[n].type = "RPAREN"})

OrEqualInCondition(toks) ==
    \E i \in 1..Len(toks) :
        /\ toks[i].type \in {"LESS_THAN_OR_EQUAL", "GREATER_THAN_OR_EQUAL"}
        /\ InCondition(toks, i)

\* Parser.parse has just returned or raised
AfterParse ==
    /\ pc \in {"analyze", "except"}
    /\ tokens # <<>>
    /\ tokens[Len(tokens)].type = "EOF"

\* C13: any program in which <= or >= appears inside the condition of an if
\* or a while is rejected by the parser with a syntax error, although the
\* lexer produces a token for the operator.
C13_OrEqualInConditionIsSyntaxError ==
    (AfterParse /\ OrEqualInCondition(tokens)) =>
        (pc = "except" /\ exc.type = "ParseError")

----------------------------------------------------------------------------
(* Duplicate declarations *)

\* SemanticAnalyzer.analyze has just returned or raised
AfterAnalyze == pc \in {"generate", "except"} /\ ast # NoNode

\* the declarations that repeat the name of an earlier declaration
Redeclarations(program) ==
    { j \in 1..Len(program.declarations) :
        \E i \in 1..(j - 1) : program.declarations[i].name = program.declarations[j].name }

Minimum(S) == CHOOSE n \in S : \A m \in S : n <= m

\* the first declaration of the name that declaration j repeats
FirstDeclaration(program, j) ==
    program.declarations[Minimum(DeclarationsOf(program, program.declarations[j].name))]

\* the characters of the source text at a line and a column (both from 1)
TextAt(text, line, column, n) ==
    LET lines == splitlines(text)
    IN  IF line \in 1..Len(lines) THEN SubSeq(lines[line], column, column + n - 1) ELSE <<>>

\* C14: declaring the same name twice, with the same or a different type,
\* makes semantic analysis raise a duplicate-declaration error that names the
\* line and column of the first declaration; the symbol table keeps the first
\* declaration unchanged and no statement is examined.
C14_DuplicateDeclarationRaises ==
    (AfterAnalyze /\ Redeclarations(ast) # {}) =>
        LET j == Minimum(Redeclarations(ast))
            first == FirstDeclaration(ast, j)
        IN  /\ pc = "except"
            /\ exc = SemanticError("Variable already declared",
                                   <<first.name, first.line, first.column>>)
            /\ TextAt(source_code, first.line, first.column, Len(first.name)) = first.name
            /\ DOMAIN symbol_table = {ast.declarations[i].name : i \in 1..(j - 1)}
            /\ symbol_table[first.name]
                  = Symbol(first.name, first.type, first.line, first.column)

\* a name declared a second time, after another declaration, in a program
\* whose statement would raise an error of its own
C14_Witness ==
    /\ AfterAnalyze
    /\ pc = "except"
    /\ Redeclarations(ast) = {3}
    /\ ast.declarations[1].name = ast.declarations[3].name
    /\ Len(ast.statements) >= 1
    /\ Semantic_visit_block(symbol_table, ast.statements) # NoError

\* the same name declared with two different types
C14_WitnessOtherType ==
    /\ AfterAnalyze
    /\ pc = "except"
    /\ Redeclarations(ast) = {2}
    /\ ast.declarations[1].type # ast.declarations[2].type

----------------------------------------------------------------------------
(* Assignments whose expression type differs from the type of the target *)

\* the assignments of a block, at any depth
RECURSIVE AssignmentNodes(_)
AssignmentNodes(block) ==
    UNION { CASE block[i].kind = "AssignmentStmt" -> {block[i]}
              [] block[i].kind = "IfStmt" ->
                  AssignmentNodes(block[i].then_block)
                  \cup UNION {AssignmentNodes(block[i].elif_blocks[j].statements) :
                                 j \in 1..Len(block[i].elif_blocks)}
                  \cup AssignmentNodes(block[i].else_block.statements)
              [] block[i].kind = "WhileStmt" -> AssignmentNodes(block[i].body)
              [] OTHER -> {}
            : i \in 1..Len(block) }

\* the target is declared, the expression has a type, and the two differ
Mismatched(program, node) ==
    /\ DeclaredOnce(program, node.variable)
    /\ TypeOf(program, node.expression) # IllTyped
    /\ TypeOf(program, node.expression) # DeclaredType(program, node.variable)

\* a well-typed program but for its mismatched assignments
RECURSIVE MismatchOnlyBlock(_, _)
MismatchOnlyStatement(program, node) ==
    CASE node.kind = "AssignmentStmt" ->
            /\ DeclaredOnce(program, node.variable)
            /\ TypeOf(program, node.expression) # IllTyped
      [] node.kind = "PrintStmt" -> TypeOf(program, node.expression) # IllTyped
      [] node.kind = "WhileStmt" ->
            /\ TypeOf(program, node.condition) = type_boolean
            /\ MismatchOnlyBlock(program, node.body)
      [] node.kind = "IfStmt" ->
            /\ TypeOf(program, node.condition) = type_boolean
            /\ MismatchOnlyBlock(program, node.then_block)
            /\ \A i \in 1..Len(node.elif_blocks) :
                  /\ TypeOf(program, node.elif_blocks[i].condition) = type_boolean
                  /\ MismatchOnlyBlock(program, node.elif_blocks[i].statements)
            /\ node.else_block.is_none \/ MismatchOnlyBlock(program, node.else_block.statements)
      [] OTHER -> FALSE

MismatchOnlyBlock(program, block) ==
    \A i \in 1..Len(block) : MismatchOnlyStatement(program, block[i])

MismatchOnly(program) ==
    /\ Redeclarations(program) = {}
    /\ \A i \in 1..Len(program.declarations) :
          program.declarations[i].type \in PrimitiveTypes
    /\ MismatchOnlyBlock(program, program.statements)
    /\ \E node \in AssignmentNodes(program.statements) : Mismatched(program, node)

\* C15: an assignment whose expression type differs from the declared type
\* of its target (float to integer, integer to float, or a comparison result
\* to either) raises a type-mismatch semantic error naming both the expected
\* and the actual type, wherever the assignment stands in the program.
C15_MismatchedAssignmentRaises ==
    (AfterAnalyze /\ MismatchOnly(ast)) =>
        /\ pc = "except"
        /\ \E node \in AssignmentNodes(ast.statements) :
              /\ Mismatched(ast, node)
              /\ exc = SemanticError("Type mismatch in assignment",
                                     <<node.line, node.column,
                                       DeclaredType(ast, node.variable),
                                       TypeOf(ast, node.expression)>>)

----------------------------------------------------------------------------
(* Division by zero *)

IsDivision(inst) == inst.kind = "BinaryOperation" /\ inst.operator = <<"/">>

\* the text of an operand is a number equal to zero
ImmediateZero(operand) == OperandParses(operand) /\ IsZero(OperandValue(operand))

\* constant folding leaves every division by an immediate zero as it is
C16_FoldStep ==
    pc = "fold" =>
        /\ pc' = "dce"
        /\ exc' = NoError
        /\ Len(lists'[generator.instructions]) = Len(lists[generator.instructions])
        /\ \A i \in 1..Len(lists[generator.instructions]) :
              LET inst == lists[generator.instructions][i]
              IN  (IsDivision(inst) /\ ImmediateZero(inst.right)) =>
                      lists'[generator.instructions][i] = inst

\* the interpreter stores 0 for a division by a value that is zero and goes
\* on with the next instruction
C16_ExecuteStep ==
    (pc = "execute" /\ interp.current_instruction < Len(lists[returned.ref])) =>
        LET inst == lists[returned.ref][interp.current_instruction + 1]
        IN  (IsDivision(inst) /\ IsZero(_get_value(interp, inst.right))) =>
                /\ pc' = "execute"
                /\ interp'.err = NoError
                /\ IsZero(_get_value(interp', inst.target))
                /\ interp'.current_instruction = interp.current_instruction + 1

\* C16: constant folding leaves a division whose right operand is the
\* immediate zero as an unfolded BinaryOp, without any error; the Interpreter
\* stores 0 for a division whose right operand evaluates to zero and
\* continues with the next instruction.
C16_DivisionByZero == [][C16_FoldStep /\ C16_ExecuteStep]_vars

\* a division by the immediate zero came through folding unchanged and the
\* interpreter has just executed it
C16_Witness ==
    /\ pc = "execute"
    /\ interp.current_instruction >= 1
    /\ Len(applied) = 2
    /\ LET inst == lists[returned.ref][interp.current_instruction]
       IN  /\ IsDivision(inst)
           /\ ImmediateZero(inst.right)
           /\ OperandParses(inst.left)
           /\ \E i \in 1..Len(applied[1].instructions) : applied[1].instructions[i] = inst
           /\ IsZero(_get_value(interp, inst.target))

\* the interpreter has just divided by a variable whose value is zero
C16_WitnessVariable ==
    /\ pc = "execute"
    /\ interp.current_instruction >= 1
    /\ LET inst == lists[returned.ref][interp.current_instruction]
       IN  /\ IsDivision(inst)
           /\ ~OperandParses(inst.right)
           /\ IsZero(_get_value(interp, inst.right))
           /\ IsZero(_get_value(interp, inst.target))

----------------------------------------------------------------------------
(* Independent compilations *)

Finished(f) == f.pc \in {"returned", "raised"}

\* what the compilation with variables f has left
ResultOf(f) ==
    Result(f.returned.kind,
           IF f.returned.kind = "list" THEN lists[f.returned.ref] ELSE <<>>,
           f.errors, f.exc)

\* compile() of every source text, run alone
Alone == [src \in PairSources |-> compile(src)]

\* the counters of the generator of f
Counters(f) == <<f.generator.temp_counter, f.generator.label_counter>>

\* a step of the running compilation leaves the counters of the other one
CountersKept == other' # other => (other' = Frame \/ Counters(other') = Counters(other))

\* C17: two independent compilations whose steps are interleaved in any
\* order each produce exactly the result they produce when run alone, and
\* the temporary and label counters of one generator are never changed by
\* the other.
C17_IndependentCompilations ==
    /\ [](Finished(Frame) => ResultOf(Frame) = Alone[source_code])
    /\ [](Finished(other) => ResultOf(other) = Alone[other.source_code])
    /\ [][CountersKept]_vars

\* both compilations have returned a list with temporaries and labels, their
\* generators were at work in turns, and the two lists are different objects
C17_Witness ==
    /\ Finished(Frame) /\ Finished(other)
    /\ returned.kind = "list" /\ other.returned.kind = "list"
    /\ returned.ref # other.returned.ref
    /\ generator.temp_counter >= 3 /\ other.generator.temp_counter >= 3
    /\ generator.label_counter >= 2 /\ other.generator.label_counter >= 2
    /\ source_code # other.source_code
    /\ generator.instructions < other.generator.instructions
    /\ intermediate_code > other.intermediate_code

----------------------------------------------------------------------------
(* Conditions that are not boolean *)

\* the conditions of the if statements, of their elif branches and of the
\* while statements of a block, at any depth
RECURSIVE Conditions(_)
Conditions(block) ==
    UNION { CASE block[i].kind = "IfStmt" ->
                  {block[i].condition}
                  \cup Conditions(block[i].then_block)
                  \cup {block[i].elif_blocks[j].condition :
                           j \in 1..Len(block[i].elif_blocks)}
                  \cup UNION {Conditions(block[i].elif_blocks[j].statements) :
                                 j \in 1..Len(block[i].elif_blocks)}
                  \cup Conditions(block[i].else_block.statements)
              [] block[i].kind = "WhileStmt" ->
                  {block[i].condition} \cup Conditions(block[i].body)
              [] OTHER -> {}
            : i \in 1..Len(block) }

\* the type inferred for the expression is not boolean
NonBoolean(symbols, expression) ==
    LET inferred == Semantic_visit_expression(symbols, expression)
    IN  inferred.err = NoError /\ inferred.type # type_boolean

\* C18: semantic analysis raises an error whenever the condition of an if,
\* of any elif branch of an if, or of a while has an inferred type other
\* than boolean.
C18_NonBooleanConditionRaises ==
    (AfterAnalyze /\ \E c \in Conditions(ast.statements) : NonBoolean(symbol_table, c)) =>
        (pc = "except" /\ exc.type = "SemanticError")

----------------------------------------------------------------------------
(* Names that are used and not declared *)

Use(name, line, column) == <<name, line, column>>

\* the identifiers of an expression
RECURSIVE ExpressionUses(_)
ExpressionUses(node) ==
    CASE node.kind = "Identifier" -> {Use(node.name, node.line, node.column)}
      [] node.kind = "UnaryOp"    -> ExpressionUses(node.operand)
      [] node.kind = "BinaryOp"   -> ExpressionUses(node.left) \cup ExpressionUses(node.right)
      [] OTHER                    -> {}

\* the assignment targets and the identifiers of a block: at top level, in
\* then-blocks, elif branches (condition and block), else-blocks and while
\* bodies, at any depth
RECURSIVE Uses(_)
Uses(block) ==
    UNION { CASE block[i].kind = "AssignmentStmt" ->
                  {Use(block[i].variable, block[i].line, block[i].column)}
                  \cup ExpressionUses(block[i].expression)
              [] block[i].kind = "PrintStmt" -> ExpressionUses(block[i].expression)
              [] block[i].kind = "IfStmt" ->
                  ExpressionUses(block[i].condition)
                  \cup Uses(block[i].then_block)
                  \cup UNION {ExpressionUses(block[i].elif_blocks[j].condition)
                              \cup Uses(block[i].elif_blocks[j].statements) :
                                 j \in 1..Len(block[i].elif_blocks)}
                  \cup Uses(block[i].else_block.statements)
              [] block[i].kind = "WhileStmt" ->
                  ExpressionUses(block[i].condition) \cup Uses(block[i].body)
              [] OTHER -> {}
            : i \in 1..Len(block) }

Declared(program) == {program.declarations[i].name : i \in 1..Len(program.declarations)}

UndeclaredUses(program) == {u \in Uses(program.statements) : u[1] \notin Declared(program)}

\* C19: semantic analysis raises an undeclared-variable error if any
\* assignment target or any identifier inside an expression is not declared,
\* wherever it occurs: at top level or at any depth inside a then-block, an
\* elif branch (condition or block), an else-block or a while body.  (When
\* an earlier statement is wrong in another way, the error raised is the one
\* of that statement.)
C19_UndeclaredUseRaises ==
    (AfterAnalyze /\ UndeclaredUses(ast) # {}) =>
        /\ pc = "except"
        /\ exc.type = "SemanticError"
        /\ exc.message.text = "Undefined variable" =>
              exc.message.args \in UndeclaredUses(ast)

----------------------------------------------------------------------------
(* Expressions of boolean type *)

\* the expression and the expressions inside it
RECURSIVE Subexpressions(_)
Subexpressions(node) ==
    {node} \cup CASE node.kind = "UnaryOp"  -> Subexpressions(node.operand)
                  [] node.kind = "BinaryOp" ->
                        Subexpressions(node.left) \cup Subexpressions(node.right)
                  [] OTHER                  -> {}

\* the expressions that the analyzer visits in a block: those of the
\* assignments, prints, if and while conditions, then-blocks, else-blocks
\* and while bodies
RECURSIVE VisitedExpressions(_)
VisitedExpressions(block) ==
    UNION { CASE block[i].kind \in {"AssignmentStmt", "PrintStmt"} ->
                  Subexpressions(block[i].expression)
              [] block[i].kind = "IfStmt" ->
                  Subexpressions(block[i].condition)
                  \cup VisitedExpressions(block[i].then_block)
                  \cup VisitedExpressions(block[i].else_block.statements)
              [] block[i].kind = "WhileStmt" ->
                  Subexpressions(block[i].condition) \cup VisitedExpressions(block[i].body)
              [] OTHER -> {}
            : i \in 1..Len(block) }

\* the conditions that the analyzer checks in a block
RECURSIVE VisitedConditions(_)
VisitedConditions(block) ==
    UNION { CASE block[i].kind = "IfStmt" ->
                  {block[i].condition}
                  \cup VisitedConditions(block[i].then_block)
                  \cup VisitedConditions(block[i].else_block.statements)
              [] block[i].kind = "WhileStmt" ->
                  {block[i].condition} \cup VisitedConditions(block[i].body)
              [] OTHER -> {}
            : i \in 1..Len(block) }

IsComparison(node) == node.kind = "BinaryOp" /\ node.operator.type \in AllComparisonTypes

\* the type inferred for the expression is boolean
Boolean(symbols, expression) ==
    LET inferred == Semantic_visit_expression(symbols, expression)
    IN  inferred.err = NoError /\ inferred.type = type_boolean

\* C20: in expression typing only comparison operators produce the boolean
\* type: a literal, an identifier, a unary +/- and a binary arithmetic
\* operator never yield boolean, so every condition accepted by semantic
\* analysis is a comparison.
C20_OnlyComparisonsAreBoolean ==
    AfterAnalyze =>
        /\ \A e \in VisitedExpressions(ast.statements) :
              Boolean(symbol_table, e) => IsComparison(e)
        /\ pc = "generate" =>
              \A c \in VisitedConditions(ast.statements) : IsComparison(c)

----------------------------------------------------------------------------
(* Temporaries after dead-code elimination *)

\* the names new_temp has returned, those that are also declared left out
Temporaries ==
    {<<"t">> \o IntStr(k) : k \in 0..(generator.temp_counter - 1)} \ Declared(ast)

\* the names an instruction reads: the source of an Assignment, the operands
\* of an operation, the value of a Print and the condition of a jump
Consumed(inst) ==
    CASE inst.kind = "Assignment"      -> {inst.source}
      [] inst.kind = "BinaryOperation" -> {inst.left, inst.right}
      [] inst.kind = "UnaryOperation"  -> {inst.operand}
      [] inst.kind = "Print"           -> {inst.value}
      [] inst.kind = "ConditionalJump" ->
            {inst.condition, SubSeq(inst.condition, 5, Len(inst.condition))}
      [] OTHER                         -> {}

Defines(inst, name) ==
    inst.kind \in {"Assignment", "BinaryOperation", "UnaryOperation"} /\ inst.target = name

Definitions(instructions, name) ==
    {i \in 1..Len(instructions) : Defines(instructions[i], name)}

\* the instruction at i defines a temporary that is defined nowhere else and
\* that a later instruction reads
ProducedOnceAndConsumed(instructions, i) ==
    /\ instructions[i].kind \in {"Assignment", "BinaryOperation", "UnaryOperation"}
    /\ instructions[i].target \in Temporaries
    /\ Definitions(instructions, instructions[i].target) = {i}
    /\ \E j \in (i + 1)..Len(instructions) : instructions[i].target \in Consumed(instructions[j])

\* every temporary that the sequence reads is defined earlier in it
DefinedBeforeUse(instructions) ==
    \A j \in 1..Len(instructions) :
        \A name \in Consumed(instructions[j]) \cap Temporaries :
            \E i \in 1..(j - 1) : Defines(instructions[i], name)

Optimized == Len(applied) = 2 /\ applied[2].pass = "dce" /\ pc \in {"return", "returned"}

\* C21: dead-code elimination does not remove an instruction whose target is
\* a temporary that is produced once and consumed by a later instruction;
\* after optimize() every temporary still used in the generator's sequence
\* is still defined by an earlier instruction of that sequence.
C21_ConsumedTemporariesSurvive ==
    Optimized =>
        /\ \A i \in 1..Len(applied[1].instructions) :
              ProducedOnceAndConsumed(applied[1].instructions, i) =>
                  \E k \in 1..Len(lists[generator.instructions]) :
                      lists[generator.instructions][k] = applied[1].instructions[i]
        /\ DefinedBeforeUse(lists[generator.instructions])

----------------------------------------------------------------------------
(* Temporaries and user variables *)

\* the names new_temp has returned during generation
TempNames == {<<"t">> \o IntStr(k) : k \in 0..(generator.temp_counter - 1)}

\* dead-code elimination takes the target for a temporary
EliminationTakesForTemporary(name) == Eliminated(Assignment(name, <<"0">>), {})

\* the interpreter stores the name among the temporaries
StoredAmongTemporaries(name) ==
    name \in DOMAIN _set_value(InterpreterInit, name, IntNum(0)).temporaries

\* C22: for any program accepted by the lexer, the parser and the semantic
\* analyzer, no name returned by new_temp during generation equals the name
\* of a user-declared variable, and neither dead-code elimination nor the
\* store selection of the interpreter classifies a user variable as a
\* temporary.
C22_TemporariesAreDistinguishable ==
    Generated =>
        /\ TempNames \cap Declared(ast) = {}
        /\ \A name \in Declared(ast) :
              ~EliminationTakesForTemporary(name) /\ ~StoredAmongTemporaries(name)

----------------------------------------------------------------------------
(* What constant folding rewrites *)

\* the values of the literals of a block, at any depth
RECURSIVE LiteralValues(_)
LiteralValues(block) ==
    LET Of(expression) ==
            {e.value : e \in {n \in Subexpressions(expression) : n.kind = "Literal"}}
    IN  UNION { CASE block[i].kind \in {"AssignmentStmt", "PrintStmt"} ->
                      Of(block[i].expression)
                  [] block[i].kind = "IfStmt" ->
                      Of(block[i].condition)
                      \cup LiteralValues(block[i].then_block)
                      \cup UNION {Of(block[i].elif_blocks[j].condition)
                                  \cup LiteralValues(block[i].elif_blocks[j].statements) :
                                     j \in 1..Len(block[i].elif_blocks)}
                      \cup LiteralValues(block[i].else_block.statements)
                  [] block[i].kind = "WhileStmt" ->
                      Of(block[i].condition) \cup LiteralValues(block[i].body)
                  [] OTHER -> {}
                : i \in 1..Len(block) }

ArithmeticOperators == {<<"+">>, <<"-">>, <<"*">>, <<"/">>}

Arithmetic(left, operator, right) ==
    CASE operator = <<"+">> -> NumAdd(left, right)
      [] operator = <<"-">> -> NumSub(left, right)
      [] operator = <<"*">> -> NumMul(left, right)
      [] operator = <<"/">> -> NumDiv(left, right)

\* what the pass is to put in the place of inst: the instruction itself, or
\* the Assignment of the computed value when inst is an arithmetic operation
\* on two immediate numerals (the texts of two literals of the program) that
\* is not a division by zero
Folded(inst, values) ==
    LET pairs == IF inst.kind = "BinaryOperation" /\ inst.operator \in ArithmeticOperators
                 THEN {p \in values \X values :
                          /\ inst.left = str(p[1])
                          /\ inst.right = str(p[2])
                          /\ ~(inst.operator = <<"/">> /\ IsZero(p[2]))}
                 ELSE {}
    IN  IF pairs = {} THEN inst
        ELSE LET p == CHOOSE q \in pairs : TRUE
             IN  Assignment(inst.target, str(Arithmetic(p[1], inst.operator, p[2])))

\* C23: the constant-folding pass rewrites an instruction if and only if it
\* is a BinaryOp whose two operands are both immediate numerals, whose
\* operator is one of + - * /, and which is not a division by an immediate
\* zero; such an instruction is replaced at the same index by
\* Assign(target, computed value); every other instruction, including every
\* comparison on two immediates, is left unchanged and the length of the
\* sequence is preserved.
C23_FoldsExactlyImmediateArithmetic ==
    [][pc = "fold" =>
          /\ Len(lists'[generator.instructions]) = Len(lists[generator.instructions])
          /\ \A i \in 1..Len(lists[generator.instructions]) :
                lists'[generator.instructions][i]
                    = Folded(lists[generator.instructions][i], LiteralValues(ast.statements))
      ]_vars

----------------------------------------------------------------------------
(* Chained if blocks *)

\* the statement lists of a block: the block itself and the then-blocks,
\* the blocks of the elif branches, the else-blocks and the while bodies
\* inside it
RECURSIVE StatementLists(_)
StatementLists(block) ==
    {block} \cup
    UNION { CASE block[i].kind = "IfStmt" ->
                  StatementLists(block[i].then_block)
                  \cup UNION {StatementLists(block[i].elif_blocks[j].statements) :
                                 j \in 1..Len(block[i].elif_blocks)}
                  \cup (IF block[i].else_block.is_none THEN {}
                        ELSE StatementLists(block[i].else_block.statements))
              [] block[i].kind = "WhileStmt" -> StatementLists(block[i].body)
              [] OTHER -> {}
            : i \in 1..Len(block) }

\* the If nodes and elif branches of a block, at any depth
RECURSIVE IfBlocks(_)
IfBlocks(block) ==
    LET Sum(f, n) == LET S[k \in 0..n] == IF k = 0 THEN 0 ELSE S[k - 1] + f[k] IN S[n]
        count == [i \in 1..Len(block) |->
                    CASE block[i].kind = "IfStmt" ->
                          1 + Len(block[i].elif_blocks)
                          + IfBlocks(block[i].then_block)
                          + Sum([j \in 1..Len(block[i].elif_blocks) |->
                                    IfBlocks(block[i].elif_blocks[j].statements)],
                                Len(block[i].elif_blocks))
                          + IfBlocks(block[i].else_block.statements)
                      [] block[i].kind = "WhileStmt" -> IfBlocks(block[i].body)
                      [] OTHER -> 0]
    IN  Sum(count, Len(block))

IfTokens(toks) == Cardinality({i \in 1..Len(toks) : toks[i].type = "IF"})

\* an If node with no else block, directly followed by an If node
BareIfSeparated(block) ==
    \E i \in 1..(Len(block) - 1) :
        /\ block[i].kind = "IfStmt"
        /\ block[i + 1].kind = "IfStmt"
        /\ block[i].else_block.is_none

\* C24: a bare if block that immediately follows the closing brace of a
\* preceding if or elif block, with no intervening else, is always parsed as
\* an elif branch of that same If node and never as a separate statement:
\* in every statement list of a parsed AST an If node that is immediately
\* followed by another If node has an else block.
C24_BareIfIsElifBranch ==
    ast # NoNode =>
        /\ \A block \in StatementLists(ast.statements) : ~BareIfSeparated(block)
        /\ IfBlocks(ast.statements) = IfTokens(tokens)

\* a parsed program with an If node that has an elif branch, and with an If
\* node that follows an If node closed by an else block
C24_Witness ==
    /\ ast # NoNode
    /\ \E block \in StatementLists(ast.statements) :
          \E i \in 1..Len(block) : block[i].kind = "IfStmt" /\ Len(block[i].elif_blocks) >= 1
    /\ \E block \in StatementLists(ast.statements) :
          \E i \in 1..(Len(block) - 1) :
              /\ block[i].kind = "IfStmt"
              /\ block[i + 1].kind = "IfStmt"
              /\ ~block[i].else_block.is_none

----------------------------------------------------------------------------
(* Declarations after the first statement *)

\* the index of the first token after the leading declarations
RECURSIVE DeclarationsEnd(_, _)
DeclarationsEnd(toks, i) ==
    IF /\ i + 4 <= Len(toks)
       /\ toks[i].type = "VAR"
       /\ toks[i + 1].type = "IDENTIFIER"
       /\ toks[i + 2].type = "ASSIGN"
       /\ toks[i + 3].type \in {"INTEGER", "FLOAT"}
       /\ toks[i + 4].type = "SEMICOLON"
    THEN DeclarationsEnd(toks, i + 5)
    ELSE i

\* the declaration keywords after the first token of the first statement
LateKeywords(toks) ==
    LET first == DeclarationsEnd(toks, 1)
    IN  IF toks[first].type = "VAR" THEN {}
        ELSE {k \in (first + 1)..Len(toks) : toks[k].type = "VAR"}

\* the position (line, column) is not after the token
NotAfter(line, column, token) ==
    line < token.line \/ (line = token.line /\ column <= token.column)

\* C25: all variable declarations must precede all statements: a declaration
\* keyword that appears after the first statement of the program, or
\* anywhere inside an if, elif, else or while block, makes the parser raise a
\* syntax error at that token (or at an earlier token, when the text before
\* it is already wrong), so no declaration is ever registered from inside a
\* block.
C25_LateDeclarationIsSyntaxError ==
    AfterParse =>
        /\ \A k \in LateKeywords(tokens) :
              /\ pc = "except"
              /\ ast = NoNode
              /\ exc.type = "ParseError"
              /\ NotAfter(exc.line, exc.column, tokens[k])
        /\ ast # NoNode =>
              Len(ast.declarations)
                  = Cardinality({k \in 1..Len(tokens) : tokens[k].type = "VAR"})

----------------------------------------------------------------------------
(* Positions in a source text, counted from the text itself: lines are      *)
(* separated by "\n", and both line and column start at 1.                   *)

Newlines(text, i) == {j \in 1..(i - 1) : text[j] = "\n"}

LineOf(text, i) == 1 + Cardinality(Newlines(text, i))

ColumnOf(text, i) ==
    LET before == Newlines(text, i)
    IN  IF before = {} THEN i ELSE i - (CHOOSE j \in before : \A k \in before : k <= j)

\* the last index of the run of digits and points that starts at index i
RECURSIVE NumeralEnd(_, _)
NumeralEnd(text, i) ==
    IF i < Len(text) /\ (isdigit(text[i + 1]) \/ text[i + 1] = ".")
    THEN NumeralEnd(text, i + 1)
    ELSE i

\* the points of the numeral that starts at index i
NumeralPoints(text, i) == {j \in i..NumeralEnd(text, i) : text[j] = "."}

\* a character that starts no token, no comment and no whitespace
Unrecognised(text, i) ==
    /\ ~ isspace(text[i])
    /\ text[i] # "#"
    /\ ~ isalpha(text[i])
    /\ text[i] # "_"
    /\ ~ isdigit(text[i])
    /\ <<text[i]>> \notin OperatorTexts
    /\ ~ (i < Len(text) /\ <<text[i], text[i + 1]>> \in OperatorTexts)

\* the index of the character at which the token that starts at index i
\* goes wrong, 0 when it does not
Offending(text, i) ==
    IF Unrecognised(text, i) THEN i
    ELSE IF isdigit(text[i]) /\ Cardinality(NumeralPoints(text, i)) >= 2
         THEN CHOOSE j \in NumeralPoints(text, i) :
                 Cardinality({k \in NumeralPoints(text, i) : k < j}) = 1
         ELSE 0

\* the lexer stands at the start of a token
AtToken ==
    /\ pc = "lex"
    /\ lexer.current_char # None
    /\ ~ isspace(lexer.current_char)
    /\ lexer.current_char # "#"

\* C26: when the lexer meets a character it does not recognise, or a second
\* decimal point inside one numeral, tokenize raises a LexicalError whose
\* line and column are the 1-indexed position of that character, the column
\* restarting at 1 after each newline, and tokenization stops there: no token
\* sequence is returned.
C26_LexicalErrorAtOffendingCharacter ==
    /\ [][AtToken /\ Offending(source_code, lexer.position + 1) # 0 =>
            /\ pc' = "except"
            /\ exc'.type = "LexicalError"
            /\ exc'.line = LineOf(source_code, Offending(source_code, lexer.position + 1))
            /\ exc'.column = ColumnOf(source_code, Offending(source_code, lexer.position + 1))
            /\ tokens' = tokens]_vars
    /\ [][AtToken /\ Offending(source_code, lexer.position + 1) = 0 => pc' # "except"]_vars
    /\ [][pc = "except" /\ exc.type = "LexicalError" => pc' # "parse" /\ tokens' = tokens]_vars

\* a second decimal point on the second line of the text has been reported
C26_Witness ==
    /\ pc = "except"
    /\ exc.type = "LexicalError"
    /\ exc.line = 2
    /\ exc.column = 3
    /\ source_code[lexer.position + 1] = "."
    /\ lexer.position + 1 = 4

----------------------------------------------------------------------------
(* Execution before and after constant folding *)

\* C27: constant folding preserves meaning: executing the generated sequence
\* in the Interpreter before and after _constant_folding prints the same
\* values and leaves the same value in every variable and every temporary.
C27_FoldingPreservesMeaning ==
    [][pc = "fold" =>
          LET before == execute(lists[generator.instructions])
              after == execute(lists'[generator.instructions])
          IN  /\ after.out = before.out
              /\ after.it.variables = before.it.variables
              /\ after.it.temporaries = before.it.temporaries
      ]_vars

----------------------------------------------------------------------------
(* Temporaries in the generated sequence *)

\* a name of the form t<digits>
IsTempName(name) ==
    /\ Len(name) >= 2
    /\ name[1] = "t"
    /\ \A i \in 2..Len(name) : name[i] \in AsciiDigits

\* the targets of the form t<digits>, in the order of emission
RECURSIVE TempTargets(_)
TempTargets(instructions) ==
    IF instructions = <<>> THEN <<>>
    ELSE LET inst == Head(instructions)
         IN  (IF /\ inst.kind \in {"Assignment", "BinaryOperation", "UnaryOperation"}
                 /\ IsTempName(inst.target)
              THEN <<inst.target>> ELSE <<>>)
             \o TempTargets(Tail(instructions))

\* t0, t1, ..., t(n-1)
Numbered(n) == [k \in 1..n |-> <<"t">> \o IntStr(k - 1)]

\* no declared variable is named t<digits>
NoTempNamedVariable == \A name \in Declared(ast) : ~IsTempName(name)

\* C28: in the sequence produced by generate, for a program none of whose
\* variables is named t<digits>, every temporary is the target of exactly
\* one instruction, the temporaries are numbered t0, t1, ... in the order
\* of emission without gaps, and every use of a temporary comes after the
\* instruction that defines it.
C28_TemporariesNumberedAndDefinedFirst ==
    (Generated /\ NoTempNamedVariable) =>
        LET instructions == lists[intermediate_code]
            targets == TempTargets(instructions)
        IN  /\ targets = Numbered(Len(targets))
            /\ Len(targets) = generator.temp_counter
            /\ \A j \in 1..Len(instructions) :
                  \A name \in Consumed(instructions[j]) :
                      IsTempName(name) =>
                          /\ Cardinality(Definitions(instructions, name)) = 1
                          /\ \E i \in 1..(j - 1) : Defines(instructions[i], name)

\* three temporaries, the last of them the condition of the jump of a while
C28_Witness ==
    /\ Generated
    /\ NoTempNamedVariable
    /\ generator.temp_counter = 3
    /\ \E j \in 1..Len(lists[intermediate_code]) :
          /\ lists[intermediate_code][j].kind = "ConditionalJump"
          /\ lists[intermediate_code][j].condition = <<"n","o","t"," ","t","2">>
          /\ \E k \in (j + 1)..Len(lists[intermediate_code]) :
                /\ lists[intermediate_code][k].kind = "Jump"
                /\ \E i \in 1..(j - 1) :
                      /\ lists[intermediate_code][i].kind = "Label"
                      /\ lists[intermediate_code][i].name = lists[intermediate_code][k].target

----------------------------------------------------------------------------
(* Control instructions and prints under optimize() *)

IsControlOrPrint(inst) == inst.kind \in {"Label", "Jump", "ConditionalJump", "Print"}

\* the labels, jumps and prints of a sequence, in their order
ControlAndPrints(instructions) == SelectSeq(instructions, IsControlOrPrint)

\* a pass of optimize() is about to run on the generator's list
InOptimize == pc \in {"fold", "dce"}

\* C29: optimize() never removes, alters or reorders a Label, Jump,
\* ConditionalJump or Print: each of its passes leaves the subsequence of
\* these instructions in the generator's list as it was, so after optimize()
\* every label name is still unique and every jump target still a label.
C29_OptimizeKeepsControlAndPrints ==
    /\ [][InOptimize =>
            ControlAndPrints(lists'[generator'.instructions])
                = ControlAndPrints(lists[generator.instructions])]_vars
    /\ [](Optimized =>
            LET instructions == lists[generator.instructions]
            IN  /\ \A name \in LabelNames(instructions) :
                      Cardinality(LabelPositions(instructions, name)) = 1
                /\ \A i \in 1..Len(instructions) :
                      IsJump(instructions[i]) =>
                          instructions[i].target \in LabelNames(instructions))

\* optimize() has removed an instruction from a sequence with a loop, and a
\* Print of a temporary is still there
C29_Witness ==
    /\ Optimized
    /\ Len(lists[generator.instructions]) < Len(applied[1].instructions)
    /\ \E i \in 1..Len(lists[generator.instructions]) :
          /\ lists[generator.instructions][i].kind = "Print"
          /\ IsTempName(lists[generator.instructions][i].value)
    /\ \E i \in 1..Len(lists[generator.instructions]) :
          lists[generator.instructions][i].kind = "Jump"

----------------------------------------------------------------------------
(* The parser's cursor *)

\* the index of the last token, which is the EOF token
EofIndex == Len(tokens) - 1

\* C30: for any token sequence that ends with an EOF token, Parser.parse
\* terminates, returning an AST or raising ParseError, and the cursor never
\* moves past the index of the EOF token, so the end-of-input branches of
\* match and peek, which report the position (-1, -1), are never reached.
C30_ParseEndsWithinTokens ==
    [][(pc = "parse" /\ tokens[Len(tokens)].type = "EOF") =>
          /\ pc' \in {"analyze", "except"}
          /\ pc' = "analyze" => ast' # NoNode
          /\ pc' = "except" => exc'.type = "ParseError" /\ exc'.line # -1 /\ exc'.column # -1
          /\ 0 <= parser_current'
          /\ parser_current' <= EofIndex
      ]_vars

====
